---------------------------- MODULE Spec2Model ----------------------------
(***************************************************************************)
(* Model of generate.py, the generator of the VLC Python/Java bindings:    *)
(* the header scanner (Parser.parse_groups), the declaration parsers       *)
(* (parse_enums, parse_funcs, parse_callbacks, parse_param), the           *)
(* direction classifier (Par.flags), the documentation transform           *)
(* (Func.xform), the type check (_Generator.check_types), the Python       *)
(* generator (PythonGenerator.save and what it calls) and the diagnostic   *)
(* counter with its checkpoints (errorf, errors, __main__, process).       *)
(*                                                                         *)
(* Text is modelled as sequences of lexical tokens: a header line, a       *)
(* documentation line, a numeric literal are sequences of strings, and the *)
(* string operations of the source (startswith, endswith, strip, split,    *)
(* join, replace, int) are operators on such sequences.                    *)
(***************************************************************************)
EXTENDS Integers, Sequences, FiniteSets, TLC

\* ------------------------------------------------------------------------
\* Bounds of the model
\* ------------------------------------------------------------------------

\* Number of physical lines of a header read by one parse_groups pass.
MaxLines == 3

\* Number of comma-separated fragments of an enum's value list.
MaxFrags == 3

\* Number of names in the [OUT] list handed to Par.flags.
MaxOut == 2

\* Number of parameters of a function.
MaxPars == 2

\* Number of lines of a function's doc string.
MaxDocLines == 3

\* ------------------------------------------------------------------------
\* Generic helpers on token sequences
\* ------------------------------------------------------------------------

Last(q) == q[Len(q)]

Range(q) == { q[i] : i \in 1..Len(q) }

RECURSIVE Flatten(_)
\* ''.join of a sequence of token sequences.
Flatten(qs) == IF qs = <<>> THEN <<>> ELSE Head(qs) \o Flatten(Tail(qs))

Min(x, y) == IF x < y THEN x ELSE y

\* ------------------------------------------------------------------------
\* Header lines (input of parse_groups)
\* ------------------------------------------------------------------------
\* Tokens of a header line:
\*   "ind"    leading white space
\*   "/**"    start of a documentation block      " * "  its continuation
\*   "/*"     start of an ordinary comment        "*/"   end of a comment
\*   "API"    the public-API marker LIBVLC_API
\*   "sig"    return type, name, '(' and parameters: 'int libvlc_f( int x'
\*   ");"     the terminator of a function declaration
\*   "enum{"  'typedef enum libvlc_foo_t {'
\*   "val"    enum entries
\*   "};"     '} libvlc_foo_t;'
\*   "w"      any other text        "c", "doc"  comment and documentation text

Lines ==
  { <<"/**", "doc">>,                       \* documentation block start
    <<"/**", "doc", "*/">>,                 \* one-line documentation block
    <<" * ", "doc">>,                       \* documentation continuation
    <<"ind", "*/">>,                        \* ' */' closing a block
    <<"/*", "c", "*/">>,                    \* one-line ordinary comment
    <<"/*", "c">>,                          \* ordinary comment left open
    <<"API", "sig", ");">>,                 \* one-line declaration
    <<"API", "sig">>,                       \* declaration continued below
    <<"ind", "sig", ");">>,                 \* continuation ending a declaration
    <<"ind", "sig", ");", "/*", "c", "*/">>,\* the same with a trailing comment
    <<"API", "sig", ");", "/*", "c", "*/">>,\* declaration with trailing comment
    <<"API", ");">>,                        \* 'LIBVLC_API f();': no parameters
    <<"enum{", "val">>,                     \* enum continued below
    <<"enum{", "val", "};">>,               \* one-line enum
    <<"};">>,                               \* line closing an enum
    <<"w", ";">>,                           \* unrelated statement
    <<>> }                                  \* empty line

Kinds == { "enum", "func" }

\* t.startswith(p), on the raw line
StartsWith(t, p) == t # <<>> /\ t[1] = p

\* t.strip(): leading white space removed (lines carry no trailing space)
Strip(t) == IF StartsWith(t, "ind") THEN Tail(t) ELSE t

\* t.startswith('/*'): '/**' starts with '/*' as well
StartsComment(t) == t # <<>> /\ t[1] \in { "/*", "/**" }

\* t.endswith('*/')
EndsComment(t) == t # <<>> /\ Last(t) = "*/"

\* the terminator strings: ';' for enums, ');' for functions and callbacks
Ends(kind) == IF kind = "enum" THEN ";" ELSE ");"

\* t.endswith(ends): a token ');' or '};' also ends with ';'
EndsWith(t, ends) ==
  /\ t # <<>>
  /\ IF ends = ";" THEN Last(t) \in { ";", ");", "};" } ELSE Last(t) = ends

\* t.split('/*', 1)[0].rstrip(): the text before the first comment opener
BeforeComment(t) ==
  LET opens == { i \in 1..Len(t) : t[i] \in { "/*", "/**" } }
  IN IF opens = {} THEN t
     ELSE SubSeq(t, 1, (CHOOSE i \in opens : \A j \in opens : i <= j) - 1)

\* match_t: enum_type_re.match for enums, startswith(LIBVLC_API) for functions
match_t(kind, t) ==
  IF kind = "enum" THEN StartsWith(t, "enum{") ELSE StartsWith(t, "API")

\* Positions of the ')' that api_re can close on: a ');' after a 'sig'.
ApiCloses(t) ==
  { j \in 1..Len(t) : t[j] = ");" /\ \E i \in 2..(j - 1) : t[i] = "sig" }

\* Positions of the '}' that enum_re can close on: a '};' with text before it.
EnumCloses(t) == { j \in 3..Len(t) : t[j] = "};" }

\* match_re(t) succeeds: api_re.match / enum_re.match, anchored at the start
match_re(kind, t) ==
  IF kind = "enum"
  THEN StartsWith(t, "enum{") /\ EnumCloses(t) # {}
  ELSE StartsWith(t, "API") /\ ApiCloses(t) # {}

\* m.groups(): the text the groups capture. api_re is lazy (first close),
\* enum_re is greedy (last close).
Groups(kind, t) ==
  IF kind = "enum"
  THEN SubSeq(t, 2, (CHOOSE j \in EnumCloses(t) : \A k \in EnumCloses(t) : k <= j) - 1)
  ELSE SubSeq(t, 2, (CHOOSE j \in ApiCloses(t) : \A k \in ApiCloses(t) : j <= k) - 1)

RECURSIVE JoinNL(_)
\* _NL_.join(d)
JoinNL(ds) ==
  IF ds = <<>> THEN <<>>
  ELSE IF Len(ds) = 1 THEN ds[1]
  ELSE ds[1] \o <<"\n">> \o JoinNL(Tail(ds))

RECURSIVE LStrip(_)
LStrip(t) == IF t # <<>> /\ Head(t) = "\n" THEN LStrip(Tail(t)) ELSE t

RECURSIVE RStrip(_)
RStrip(t) ==
  IF t # <<>> /\ Last(t) = "\n" THEN RStrip(SubSeq(t, 1, Len(t) - 1)) ELSE t

\* The doc string cleanup of a yield: join, strip, drop a trailing '*/'.
DocString(ds) ==
  LET j == RStrip(LStrip(JoinNL(ds)))
  IN IF EndsComment(j) THEN RStrip(SubSeq(j, 1, Len(j) - 1)) ELSE j

\* ------------------------------------------------------------------------
\* State
\* ------------------------------------------------------------------------
VARIABLES
  mode,     \* which part of the program this behaviour exercises
  pc,       \* position of the running function
  kind,     \* parse_groups: the pass (selects match_t, match_re, ends)
  h_file,   \* parse_groups: the lines of the header read so far
  a,        \* parse_groups: multi-line accumulation buffer
  d,        \* parse_groups: documentation lines
  n,        \* parse_groups: line number
  s,        \* parse_groups: inside an ordinary comment
  tried,    \* parse_groups: the texts handed to match_re, with the line
  yields,   \* parse_groups: the tuples yielded so far
  frags,    \* parse_enums: paramlist_re.split(enum), the fragments
  fi,       \* parse_enums: number of fragments processed
  vals,     \* parse_enums: the Val instances built so far
  v,        \* parse_enums: the running enum value
  par,      \* Par.flags: self, a Par
  outArg,   \* Par.flags: the argument out
  default,  \* Par.flags: the argument default
  ret,      \* Par.flags: the tuple returned
  pars,     \* Func: self.pars
  docs,     \* Func: self.docs, as its lines
  heads,    \* Func: self.heads
  out,      \* Func: self.out
  params,   \* Func: self.params
  tails,    \* Func: self.tails
  nerrors,  \* the global _nerrors
  e,        \* check_types: the counter captured on entry
  exit,     \* << x >> once sys.exit(x) was called, << >> while running
  log,      \* the diagnostics written by errorf, in order
  ckpt,     \* errors: << the locals of its last call >>
  entry,    \* the entry point: "main" (__main__) or "process"
  opts,     \* the command-line options check and debug
  header,   \* the declarations of the header file, in order
  override, \* the lines of override.py, once generate_wrappers has read it
  previous, \* what an earlier call of process in this process read and wrote
  hi,       \* Parser: the declaration the current pass has reached
  funcs,    \* Parser.funcs
  callbacks,  \* Parser.callbacks
  blacklist,  \* the global _blacklist
  type2class, \* PythonGenerator.type2class
  output,   \* what the generator has written to its output file
  file      \* _Generator.file: None or "open"

groupVars == << kind, h_file, a, d, n, s, tried, yields >>

enumVars == << frags, fi, vals, v >>

flagVars == << par, outArg, default, ret >>

funcVars == << pars, docs, heads, out, params, tails >>

errVars == << nerrors, e, exit, log, ckpt >>

mainVars == << entry, opts, header, override, previous, hi, funcs, callbacks,
              blacklist, type2class, output, file >>

vars == << mode, pc, groupVars, enumVars, flagVars, funcVars, errVars,
          mainVars >>

\* What each part of the program leaves alone.
notGroupVars == << enumVars, flagVars, funcVars, errVars, mainVars >>

notEnumVars == << groupVars, flagVars, funcVars, errVars, mainVars >>

notFlagVars == << groupVars, enumVars, funcVars, errVars, mainVars >>

notFuncVars == << groupVars, enumVars, flagVars, errVars, mainVars >>

notErrVars == << groupVars, enumVars, flagVars, funcVars, mainVars >>

notMainVars == << groupVars, enumVars, flagVars, funcVars >>

\* ------------------------------------------------------------------------
\* The state of each part before it runs
\* ------------------------------------------------------------------------

None == "None"

GroupsIdle ==
  /\ kind = "func" /\ h_file = <<>> /\ a = <<>> /\ d = <<>>
  /\ n = 0 /\ s = FALSE /\ tried = <<>> /\ yields = <<>>

EnumsIdle == frags = <<>> /\ fi = 0 /\ vals = <<>> /\ v = -1

FlagsIdle ==
  /\ par = [ name |-> "", type |-> "void" ]
  /\ outArg = <<>> /\ default = None /\ ret = None

\* the class attributes of Func: heads, out, params, tails = ()
FuncIdle ==
  /\ pars = <<>> /\ docs = <<>>
  /\ heads = <<>> /\ out = <<>> /\ params = <<>> /\ tails = <<>>

\* _nerrors = 0, and no checkpoint has run
ErrorsIdle ==
  /\ nerrors = 0 /\ e = 0 /\ exit = <<>> /\ log = <<>> /\ ckpt = <<>>

\* The module-level dictionary _blacklist: name -> recorded type.
BlacklistNames ==
  { "libvlc_audio_output_set_device_type",
    "libvlc_audio_output_get_device_type",
    "libvlc_set_exit_handler",
    "libvlc_printerr" }

Blacklist0 == [ f \in BlacklistNames |-> "" ]

\* The class attribute PythonGenerator.type2class, as (key, value) pairs.
Type2ClassItems ==
  { << "libvlc_audio_output_t*", "ctypes.POINTER(AudioOutput)" >>,
    << "libvlc_event_t*", "ctypes.c_void_p" >>,
    << "libvlc_drawable_t", "ctypes.c_uint" >>,
    << "libvlc_event_type_t", "ctypes.c_uint" >>,
    << "libvlc_event_manager_t*", "EventManager" >>,
    << "libvlc_instance_t*", "Instance" >>,
    << "libvlc_log_t*", "Log_ptr" >>,
    << "libvlc_log_iterator_t*", "LogIterator" >>,
    << "libvlc_log_subscriber_t*", "ctypes.c_void_p" >>,
    << "libvlc_log_message_t*", "ctypes.POINTER(LogMessage)" >>,
    << "libvlc_media_track_t**", "ctypes.POINTER(MediaTrack)" >>,
    << "libvlc_media_track_t***",
       "ctypes.POINTER(ctypes.POINTER(MediaTrack))" >>,
    << "libvlc_media_t*", "Media" >>,
    << "libvlc_media_discoverer_t*", "MediaDiscoverer" >>,
    << "libvlc_media_library_t*", "MediaLibrary" >>,
    << "libvlc_media_list_t*", "MediaList" >>,
    << "libvlc_media_list_player_t*", "MediaListPlayer" >>,
    << "libvlc_media_list_view_t*", "MediaListView" >>,
    << "libvlc_media_player_t*", "MediaPlayer" >>,
    << "libvlc_media_stats_t*", "ctypes.POINTER(MediaStats)" >>,
    << "libvlc_media_track_info_t**", "ctypes.POINTER(ctypes.c_void_p)" >>,
    << "libvlc_rectangle_t*", "ctypes.POINTER(Rectangle)" >>,
    << "libvlc_time_t", "ctypes.c_longlong" >>,
    << "libvlc_track_description_t*", "ctypes.POINTER(TrackDescription)" >>,
    << "libvlc_module_description_t*",
       "ctypes.POINTER(ModuleDescription)" >>,
    << "libvlc_audio_output_device_t*",
       "ctypes.POINTER(AudioOutputDevice)" >>,
    << "FILE*", "FILE_ptr" >>,
    << "...", "ctypes.c_void_p" >>,
    << "va_list", "ctypes.c_void_p" >>,
    << "char*", "ctypes.c_char_p" >>,
    << "bool", "ctypes.c_bool" >>,
    << "char**", "ListPOINTER(ctypes.c_char_p)" >>,
    << "float", "ctypes.c_float" >>,
    << "int", "ctypes.c_int" >>,
    << "int*", "ctypes.POINTER(ctypes.c_int)" >>,
    << "uintptr_t*", "ctypes.POINTER(ctypes.c_uint)" >>,
    << "int64_t", "ctypes.c_int64" >>,
    << "short", "ctypes.c_short" >>,
    << "uint32_t", "ctypes.c_uint32" >>,
    << "unsigned", "ctypes.c_uint" >>,
    << "unsigned*", "ctypes.POINTER(ctypes.c_uint)" >>,
    << "void", "None" >>,
    << "void*", "ctypes.c_void_p" >>,
    << "void**", "ListPOINTER(ctypes.c_void_p)" >>,
    << "WINDOWHANDLE", "ctypes.c_ulong" >> }

\* a dictionary from its items
Dict(items) ==
  [ k \in { it[1] : it \in items } |->
      (CHOOSE it \in items : it[1] = k)[2] ]

Type2Class0 == Dict(Type2ClassItems)

\* before the program starts: nothing parsed, nothing written
MainIdle ==
  /\ entry = "main"
  /\ opts = [ check |-> FALSE, debug |-> FALSE ]
  /\ header = <<>> /\ hi = 0
  /\ override = <<>>
  /\ previous = <<>>
  /\ funcs = <<>> /\ callbacks = <<>>
  /\ blacklist = Blacklist0
  /\ type2class = Type2Class0
  /\ output = <<>> /\ file = None

\* ------------------------------------------------------------------------
\* Parser.parse_groups
\* ------------------------------------------------------------------------

GroupsInit ==
  /\ mode = "groups"
  /\ ErrorsIdle
  /\ MainIdle
  /\ EnumsIdle
  /\ FlagsIdle
  /\ FuncIdle
  /\ pc = "loop"
  /\ kind \in Kinds
  /\ h_file = <<>>
  /\ a = <<>>
  /\ d = <<>>
  /\ n = 0
  /\ s = FALSE
  /\ tried = <<>>
  /\ yields = <<>>

\* A plausible slip: only the terminator line is matched.
JoinedLastOnly(acc) == Last(acc)

\* t = ' '.join(a)
Joined(acc) == Flatten(acc)

\* A plausible slip: the doc lines stay buffered after a yield.
AfterYieldKept(ds) == ds

\* d = [] when the generator is resumed after the yield
AfterYield(ds) == <<>>

\* A plausible slip: a line that yields nothing empties the doc buffer.
WithoutMatchCleared(ds) == <<>>

\* `if m:` is false: d is not assigned
WithoutMatch(ds) == ds

\* The tail of one loop iteration: `if m:` clean the doc string, yield, d = [].
\* text is the text handed to match_re on this line, or <<>> with called FALSE.
Finish(called, text) ==
  /\ tried' = IF called THEN Append(tried, [text |-> text, line |-> n + 1])
                        ELSE tried
  /\ IF called /\ match_re(kind, text)
     THEN /\ yields' = Append(yields, [groups |-> Groups(kind, text),
                                       docs |-> DocString(d),
                                       line |-> n + 1])
          /\ d' = AfterYield(d)
     ELSE /\ yields' = yields
          /\ d' = WithoutMatch(d)

ReadGuard(t) ==
  /\ mode = "groups"
  /\ pc = "loop"
  /\ n < MaxLines
  /\ h_file' = Append(h_file, t)
  /\ n' = n + 1
  /\ UNCHANGED << mode, pc, kind, notGroupVars >>

\* if t.startswith('/**'): d = [t[3:].rstrip()]
DocStart ==
  \E t \in Lines :
    /\ ReadGuard(t)
    /\ StartsWith(t, "/**")
    /\ d' = << Tail(t) >>
    /\ UNCHANGED << a, s, tried, yields >>

\* elif t.startswith(' * '): d.append(t[3:].rstrip())
DocCont ==
  \E t \in Lines :
    /\ ReadGuard(t)
    /\ ~StartsWith(t, "/**")
    /\ StartsWith(t, " * ")
    /\ d' = Append(d, Tail(t))
    /\ UNCHANGED << a, s, tried, yields >>

IsDocLine(t) == StartsWith(t, "/**") \/ StartsWith(t, " * ")

\* if s or t.startswith('/*'): s = not t.endswith('*/')
CommentLine ==
  \E t \in Lines :
    /\ ReadGuard(t)
    /\ ~IsDocLine(t)
    /\ s \/ StartsComment(Strip(t))
    /\ s' = ~EndsComment(Strip(t))
    /\ UNCHANGED << a, d, tried, yields >>

\* elif a: accumulate; at the terminator join, match and reset
Accumulate ==
  \E t \in Lines :
    /\ ReadGuard(t)
    /\ ~IsDocLine(t)
    /\ ~(s \/ StartsComment(Strip(t)))
    /\ a # <<>>
    /\ LET u == BeforeComment(Strip(t))
       IN IF EndsWith(u, Ends(kind))
          THEN /\ a' = <<>>
               /\ Finish(TRUE, Joined(Append(a, u)))
          ELSE /\ a' = Append(a, u)
               /\ Finish(FALSE, <<>>)
    /\ UNCHANGED s

\* elif match_t(t): match a one-line declaration or open an accumulation
Candidate ==
  \E t \in Lines :
    /\ ReadGuard(t)
    /\ ~IsDocLine(t)
    /\ ~(s \/ StartsComment(Strip(t)))
    /\ a = <<>>
    /\ match_t(kind, Strip(t))
    /\ IF EndsWith(Strip(t), Ends(kind))
       THEN /\ a' = a
            /\ Finish(TRUE, Strip(t))
       ELSE /\ a' = << Strip(t) >>
            /\ Finish(FALSE, <<>>)
    /\ UNCHANGED s

\* none of the branches: the line is ignored
OtherLine ==
  \E t \in Lines :
    /\ ReadGuard(t)
    /\ ~IsDocLine(t)
    /\ ~(s \/ StartsComment(Strip(t)))
    /\ a = <<>>
    /\ ~match_t(kind, Strip(t))
    /\ UNCHANGED << a, d, s, tried, yields >>

\* A plausible slip: an accumulation still open at the end of the file is
\* yielded as it stands.
EndOfFileFlushes ==
  /\ mode = "groups"
  /\ pc = "loop"
  /\ pc' = "closed"
  /\ yields' = IF a # <<>>
               THEN Append(yields, [groups |-> Joined(a),
                                    docs |-> DocString(d),
                                    line |-> n])
               ELSE yields
  /\ UNCHANGED << mode, kind, h_file, a, d, n, s, tried, notGroupVars >>

\* the end of the file: f.close()
EndOfFile ==
  /\ mode = "groups"
  /\ pc = "loop"
  /\ pc' = "closed"
  /\ UNCHANGED << mode, groupVars, notGroupVars >>

GroupsNext ==
  \/ DocStart
  \/ DocCont
  \/ CommentLine
  \/ Accumulate
  \/ Candidate
  \/ OtherLine
  \/ EndOfFile

SpecGroups == GroupsInit /\ [][GroupsNext]_vars

\* ------------------------------------------------------------------------
\* Numeric literals: int(v), int(v, 16) and str(v)
\* ------------------------------------------------------------------------

DecDigits == << "0", "1", "2", "3", "4", "5", "6", "7", "8", "9" >>

HexDigits == DecDigits \o << "a", "b", "c", "d", "e", "f" >>

\* The digits of a base, as a sequence indexed from 1: digit i is worth i - 1.
DigitsOf(base) == IF base = 16 THEN HexDigits ELSE DecDigits

DigitVal(c, base) ==
  (CHOOSE i \in 1..Len(DigitsOf(base)) : DigitsOf(base)[i] = c) - 1

IsDigits(cs, base) ==
  cs # <<>> /\ \A i \in 1..Len(cs) : cs[i] \in Range(DigitsOf(base))

RECURSIVE DigitsValue(_, _)
DigitsValue(cs, base) ==
  IF cs = <<>> THEN 0
  ELSE DigitsValue(SubSeq(cs, 1, Len(cs) - 1), base) * base
       + DigitVal(Last(cs), base)

\* The sign and the optional base prefix of a literal removed.
Unsigned(cs) == IF cs # <<>> /\ cs[1] = "-" THEN Tail(cs) ELSE cs

Unprefixed(cs, base) ==
  IF base = 16 /\ Len(cs) >= 2 /\ cs[1] = "0" /\ cs[2] \in { "x", "X" }
  THEN SubSeq(cs, 3, Len(cs)) ELSE cs

\* int(cs, base) raises ValueError
IntFails(cs, base) == ~IsDigits(Unprefixed(Unsigned(cs), base), base)

\* int(cs, base), where it does not raise ValueError
PyInt(cs, base) ==
  LET m == DigitsValue(Unprefixed(Unsigned(cs), base), base)
  IN IF cs # <<>> /\ cs[1] = "-" THEN 0 - m ELSE m

RECURSIVE StrNat(_)
StrNat(i) ==
  IF i < 10 THEN << DecDigits[i + 1] >>
  ELSE Append(StrNat(i \div 10), DecDigits[(i % 10) + 1])

\* str(i)
Str(i) == IF i < 0 THEN << "-" >> \o StrNat(0 - i) ELSE StrNat(i)

\* ------------------------------------------------------------------------
\* Parser.parse_enums: the loop over the value list of one enum
\* ------------------------------------------------------------------------
\* A fragment is one piece of paramlist_re.split(enum), stripped: the tokens
\* of a C name, '=', the characters of a literal, or a comment.

Fragments ==
  { << "libvlc_foo_a" >>,                        \* name only
    << "libvlc_foo_b", "=", "5" >>,              \* decimal value
    << "libvlc_foo_c", "=", "1", "0" >>,
    << "libvlc_foo_d", "=", "0", "x", "1", "0" >>, \* hexadecimal value
    << "libvlc_foo_e", "=", "-", "1" >>,
    << "libvlc_foo_f", "=", "0", "X", "1" >>,    \* int('0X1') raises
    << "/*", "c", "*/" >>,                       \* comment only
    << "/*", "c", "*/", "libvlc_foo_g" >>,       \* comment, then an entry
    << "libvlc_foo_c" >>,                        \* another name only
    << "libvlc_state_1_1" >>,                    \* a name ending in 1_1
    << "libvlc_foo_bar", "=", "2" >>,            \* a longer last segment
    << "libvlc_foo_3d" >>,                       \* one starting with a digit
    << >> }                                      \* nothing (trailing comma)

\* '=' in t
HasEq(t) == "=" \in Range(t)

EqPos(t) == CHOOSE i \in 1..Len(t) : t[i] = "=" /\ \A j \in 1..(i - 1) : t[j] # "="

\* n, v = enum_pair_re.split(t)
PairName(t) == SubSeq(t, 1, EqPos(t) - 1)

PairValue(t) == SubSeq(t, EqPos(t) + 1, Len(t))

\* v.startswith('0x')
StartsWith0x(cs) == Len(cs) >= 2 /\ cs[1] = "0" /\ cs[2] = "x"

\* the base parse_enums converts a literal in
BaseOf(cs) == IF StartsWith0x(cs) THEN 16 ELSE 10

\* the characters of the C names of the fragments
Spelling ==
  Dict({
         << "libvlc_foo_a",
            << "l", "i", "b", "v", "l", "c", "_", "f", "o", "o", "_", "a" >> >>,
         << "libvlc_foo_b",
            << "l", "i", "b", "v", "l", "c", "_", "f", "o", "o", "_", "b" >> >>,
         << "libvlc_foo_c",
            << "l", "i", "b", "v", "l", "c", "_", "f", "o", "o", "_", "c" >> >>,
         << "libvlc_foo_d",
            << "l", "i", "b", "v", "l", "c", "_", "f", "o", "o", "_", "d" >> >>,
         << "libvlc_foo_e",
            << "l", "i", "b", "v", "l", "c", "_", "f", "o", "o", "_", "e" >> >>,
         << "libvlc_foo_f",
            << "l", "i", "b", "v", "l", "c", "_", "f", "o", "o", "_", "f" >> >>,
         << "libvlc_foo_g",
            << "l", "i", "b", "v", "l", "c", "_", "f", "o", "o", "_", "g" >> >>,
         << "libvlc_state_1_1",
            << "l", "i", "b", "v", "l", "c", "_", "s", "t", "a", "t", "e",
               "_", "1", "_", "1" >> >>,
         << "libvlc_foo_bar",
            << "l", "i", "b", "v", "l", "c", "_", "f", "o", "o", "_", "b",
               "a", "r" >> >>,
         << "libvlc_foo_3d",
            << "l", "i", "b", "v", "l", "c", "_", "f", "o", "o", "_", "3",
               "d" >> >> })

RECURSIVE Split(_, _)
\* cs.split(sep)
Split(cs, sep) ==
  IF sep \notin Range(cs) THEN << cs >>
  ELSE LET i == CHOOSE j \in 1..Len(cs) :
                  cs[j] = sep /\ \A k \in 1..(j - 1) : cs[k] # sep
       IN << SubSeq(cs, 1, i - 1) >> \o Split(SubSeq(cs, i + 1, Len(cs)), sep)

RECURSIVE JoinChars(_, _)
\* sep.join(segs)
JoinChars(segs, sep) ==
  IF segs = <<>> THEN <<>>
  ELSE IF Len(segs) = 1 THEN segs[1]
  ELSE segs[1] \o << sep >> \o JoinChars(Tail(segs), sep)

\* A plausible slip: the segment before is borrowed for a single digit only.
SingleDigit(nm) == Len(nm) = 1 /\ nm[1] \in Range(DecDigits)

\* len(n) <= 1
SingleChar(nm) == Len(nm) <= 1

\* Val.__init__: the name, from the characters of the C name
ShortName(cs) ==
  LET segs == Split(cs, "_")
      last == Last(segs)
      nm == IF SingleChar(last)
            THEN JoinChars(SubSeq(segs, IF Len(segs) > 2 THEN Len(segs) - 1
                                        ELSE 1, Len(segs)), "_")
            ELSE last
  IN IF nm[1] \in Range(DecDigits) THEN << "_" >> \o nm ELSE nm

\* Val(enum, value)
Val(enum, value) ==
  [ enum |-> enum, name |-> ShortName(Spelling[enum[1]]), value |-> value ]

\* vals, v = [], -1
FirstValue == -1

RECURSIVE SeqsUpTo(_, _)
\* The sequences of at most k elements of S.
SeqsUpTo(S, k) ==
  IF k = 0 THEN { <<>> }
  ELSE LET shorter == SeqsUpTo(S, k - 1)
       IN shorter \cup { Append(q, x) : q \in shorter, x \in S }

EnumsInit ==
  /\ mode = "enums"
  /\ ErrorsIdle
  /\ MainIdle
  /\ pc = "loop"
  /\ frags \in SeqsUpTo(Fragments, MaxFrags)
  /\ fi = 0
  /\ vals = <<>>
  /\ v = FirstValue
  /\ GroupsIdle
  /\ FlagsIdle
  /\ FuncIdle

EnumGuard ==
  /\ mode = "enums"
  /\ pc = "loop"
  /\ fi < Len(frags)
  /\ fi' = fi + 1
  /\ UNCHANGED << mode, frags, notEnumVars >>

\* A plausible slip: a skipped fragment still advances the running value.
EnumSkipAdvances ==
  /\ EnumGuard
  /\ LET t == frags[fi + 1]
     IN StartsComment(t) \/ (~HasEq(t) /\ t = <<>>)
  /\ v' = v + 1
  /\ UNCHANGED << pc, vals >>

\* a fragment that starts a comment, or an empty one, is skipped
EnumSkip ==
  /\ EnumGuard
  /\ LET t == frags[fi + 1]
     IN StartsComment(t) \/ (~HasEq(t) /\ t = <<>>)
  /\ UNCHANGED << pc, vals, v >>

\* if '=' in t: n, v = split; vals.append(Val(n, v)); v = int(v[, 16])
EnumAssign ==
  /\ EnumGuard
  /\ LET t == frags[fi + 1]
     IN /\ ~StartsComment(t)
        /\ HasEq(t)
        /\ vals' = Append(vals, Val(PairName(t), PairValue(t)))
        /\ IF IntFails(PairValue(t), BaseOf(PairValue(t)))
           THEN pc' = "ValueError" /\ v' = v
           ELSE pc' = pc /\ v' = PyInt(PairValue(t), BaseOf(PairValue(t)))

\* elif t: v += 1; vals.append(Val(t, str(v)))
EnumPlain ==
  /\ EnumGuard
  /\ LET t == frags[fi + 1]
     IN /\ ~StartsComment(t)
        /\ ~HasEq(t)
        /\ t # <<>>
        /\ v' = v + 1
        /\ vals' = Append(vals, Val(t, Str(v + 1)))
  /\ UNCHANGED pc

\* yield Enum(name, typ, vals, docs)
EnumYield ==
  /\ mode = "enums"
  /\ pc = "loop"
  /\ fi = Len(frags)
  /\ pc' = "yielded"
  /\ UNCHANGED << mode, enumVars, notEnumVars >>

EnumsNext ==
  \/ EnumSkip
  \/ EnumAssign
  \/ EnumPlain
  \/ EnumYield

SpecEnums == EnumsInit /\ [][EnumsNext]_vars

\* ------------------------------------------------------------------------
\* Flag and Par.flags
\* ------------------------------------------------------------------------

FlagIn == 1

FlagOut == 2

FlagInOut == 3

FlagInZero == 4

\* The C types whose parameters are output parameters whatever their name.
OutTypes == { "int*", "unsigned*", "libvlc_media_track_info_t**" }

\* A plausible slip: the documented [OUT] names are not consulted.
flagsIgnoringOut(self, o, dflt) ==
  LET f == IF self.type \in OutTypes THEN FlagOut ELSE FlagIn
  IN IF dflt = None THEN << f >> ELSE << f, self.name, dflt >>

\* Par.flags(self, out=(), default=None)
flags(self, o, dflt) ==
  LET f == IF self.name \in Range(o) THEN FlagOut
           ELSE IF self.type \in OutTypes THEN FlagOut ELSE FlagIn
  IN IF dflt = None THEN << f >> ELSE << f, self.name, dflt >>

FlagNames == { "p_mi", "px", "py" }

FlagTypes == { "int", "int*", "unsigned", "unsigned*", "char*", "void*",
               "libvlc_media_track_info_t**", "libvlc_media_player_t*" }

FlagsInit ==
  /\ mode = "flags"
  /\ ErrorsIdle
  /\ MainIdle
  /\ pc = "call"
  /\ par \in [ name : FlagNames, type : FlagTypes ]
  /\ outArg \in SeqsUpTo(FlagNames, MaxOut)
  /\ default \in { None, "0" }
  /\ ret = None
  /\ GroupsIdle
  /\ EnumsIdle
  /\ FuncIdle

\* one call of Par.flags
CallFlags ==
  /\ mode = "flags"
  /\ pc = "call"
  /\ ret' = flags(par, outArg, default)
  /\ pc' = "returned"
  /\ UNCHANGED << mode, par, outArg, default, notFlagVars >>

FlagsNext == CallFlags

SpecFlags == FlagsInit /\ [][FlagsNext]_vars

\* ------------------------------------------------------------------------
\* Func: xform, in_params, args, nparams
\* ------------------------------------------------------------------------
\* Tokens of a doc line: the tags '\param', '@param', '\return', '@return',
\* '\version', '@version', '\bug', '@bug'; "[OUT]" the marker _OUT_;
\* "pointer to get the " the phrase _PNTR_; parameter names; "txt" any text;
\* "." and ":" punctuation.

\* .replace('\\bug', '@bug') ... .replace('\\return', '@return'), per token
Retag(tok) ==
  CASE tok = "\\param" -> "@param"
    [] tok = "\\return" -> "@return"
    [] tok = "\\version" -> "@version"
    [] tok = "\\bug" -> "@bug"
    [] OTHER -> tok

Retagged(t) == [ i \in 1..Len(t) |-> Retag(t[i]) ]

RECURSIVE Without(_, _)
\* t.replace(x, '') for each x in drop, then ' '.join(t.split())
Without(t, drop) ==
  IF t = <<>> THEN <<>>
  ELSE IF Head(t) \in drop THEN Without(Tail(t), drop)
  ELSE << Head(t) >> \o Without(Tail(t), drop)

\* at_param_re.sub('\\1:\\2', t): a colon after '@param name' when text follows
ColonAfterName(t) ==
  LET at == { i \in 1..Len(t) : t[i] = "@param" /\ i + 2 <= Len(t) }
  IN IF at = {} THEN t
     ELSE LET i == CHOOSE k \in at : \A j \in at : k <= j
          IN SubSeq(t, 1, i + 1) \o << ":" >> \o SubSeq(t, i + 2, Len(t))

\* t.replace(tag + ' ', tag + ': '): a colon after a tag that text follows
ColonAfterTag(t, tag) ==
  [ i \in 1..Len(t) |->
      IF t[i] = tag /\ i < Len(t) THEN tag \o ":" ELSE t[i] ]

\* the tokens that end with one of '.,:;?!'
EndsPunctuated(tok) ==
  tok \in { ".", ":", "@return:", "@version:", "@bug:" }

\* endot(text)
endot(t) ==
  IF t # <<>> /\ ~EndsPunctuated(Last(t)) THEN Append(t, ".") ELSE t

\* c[-1] = '%s %s' % (c[-1], t.strip())
Continued(q, t) == [ q EXCEPT ![Len(q)] = q[Len(q)] \o t ]

\* The locals of xform before the loop: b, c, h, o, p, r, v = [], None, ...
XformStart ==
  [ b |-> <<>>, c |-> None, h |-> <<>>, o |-> <<>>, p |-> <<>>, r |-> <<>>,
    v |-> <<>> ]

\* One iteration of the loop of xform, on the retagged line t.
XformLine(x, t) ==
  IF "@param" \in Range(t)
  THEN IF "[OUT]" \in Range(t)
       THEN [ x EXCEPT
                !.o = Append(x.o, Without(t, { "@param", "pointer to get the ",
                                               "[OUT]" })),
                !.c = "drop" ]
       ELSE [ x EXCEPT !.p = Append(x.p, ColonAfterName(t)), !.c = "p" ]
  ELSE IF "@return" \in Range(t)
  THEN [ x EXCEPT !.r = Append(x.r, ColonAfterTag(t, "@return")), !.c = "r" ]
  ELSE IF "@bug" \in Range(t)
  THEN [ x EXCEPT !.b = Append(x.b, ColonAfterTag(t, "@bug")), !.c = "b" ]
  ELSE IF "@version" \in Range(t)
  THEN [ x EXCEPT !.v = Append(x.v, ColonAfterTag(t, "@version")), !.c = "v" ]
  ELSE IF x.c = None
  THEN [ x EXCEPT !.h = Append(x.h, t) ]
  ELSE CASE x.c = "p" -> [ x EXCEPT !.p = Continued(x.p, t) ]
         [] x.c = "r" -> [ x EXCEPT !.r = Continued(x.r, t) ]
         [] x.c = "b" -> [ x EXCEPT !.b = Continued(x.b, t) ]
         [] x.c = "v" -> [ x EXCEPT !.v = Continued(x.v, t) ]
         [] OTHER -> x

RECURSIVE XformLoop(_, _)
\* for t in self.docs.replace(...).splitlines(): ...
XformLoop(x, ls) ==
  IF ls = <<>> THEN x
  ELSE XformLoop(XformLine(x, Retagged(Head(ls))), Tail(ls))

RECURSIVE JoinComma(_)
\* ', '.join(o)
JoinComma(qs) ==
  IF qs = <<>> THEN <<>>
  ELSE IF Len(qs) = 1 THEN qs[1]
  ELSE qs[1] \o << "," >> \o JoinComma(Tail(qs))

MapEndot(qs) == [ i \in 1..Len(qs) |-> endot(qs[i]) ]

\* self.out = tuple(t.split()[0] for t in o)
OutNames(o) == [ i \in 1..Len(o) |-> o[i][1] ]

\* findall of bs_param_re in the doc string: the word after each param tag
RECURSIVE TagNames(_)
TagNames(t) ==
  IF Len(t) < 2 THEN <<>>
  ELSE IF t[1] \in { "\\param", "@param" }
       THEN << t[2] >> \o TagNames(Tail(Tail(t)))
       ELSE TagNames(Tail(t))

\* bs_param_re.findall(docs)
DocParamNames(ls) == Flatten([ i \in 1..Len(ls) |-> TagNames(ls[i]) ])

\* Func.in_params(first): the parameters that are not output parameters
RECURSIVE in_params_from(_, _)
in_params_from(ps, o) ==
  IF ps = <<>> THEN <<>>
  ELSE IF flags(Head(ps), o, None)[1] # FlagOut
       THEN << Head(ps) >> \o in_params_from(Tail(ps), o)
       ELSE in_params_from(Tail(ps), o)

in_params(first) == in_params_from(SubSeq(pars, first + 1, Len(pars)), out)

\* Func.args(first)
args(first) ==
  LET ps == in_params(first) IN [ i \in 1..Len(ps) |-> ps[i].name ]

\* Func.nparams
nparams ==
  IF Len(params) + Len(out) # 0 THEN Len(params) + Len(out)
  ELSE Len(DocParamNames(docs))

DocNames == { "p_mi", "px" }

DocTypes == { "int", "unsigned*" }

DocLines ==
  { << "txt" >>,
    << "\\return", "txt", "." >>,
    << "\\version", "txt" >> }
  \cup { << "\\param", x, "txt" >> : x \in DocNames }
  \cup { << "\\param", x, "pointer to get the ", "txt", "[OUT]" >> :
          x \in DocNames }

\* The parameter names of a C prototype are distinct.
DistinctNames(ps) ==
  \A i, j \in 1..Len(ps) : ps[i].name = ps[j].name => i = j

FuncInit ==
  /\ mode = "func"
  /\ ErrorsIdle
  /\ MainIdle
  /\ pc = "parsed"
  /\ pars \in { ps \in SeqsUpTo([ name : DocNames, type : DocTypes ], MaxPars) :
                  DistinctNames(ps) }
  /\ docs \in SeqsUpTo(DocLines, MaxDocLines)
  /\ heads = <<>>
  /\ out = <<>>
  /\ params = <<>>
  /\ tails = <<>>
  /\ GroupsIdle
  /\ EnumsIdle
  /\ FlagsIdle

\* A plausible slip: the synthesized line is put before the original ones.
ReturnsAppended(x) ==
  IF x.o # <<>>
  THEN << << "@return:" >> \o JoinComma(x.o) >> \o x.r
  ELSE x.r

\* if o: r = ['@return: %s' % ', '.join(o)]
Returns(x) ==
  IF x.o # <<>>
  THEN << << "@return:" >> \o JoinComma(x.o) >>
  ELSE x.r

\* Func.xform: the attributes it assigns, from the doc lines ds and the
\* attributes' current values cur (an attribute is assigned only when its
\* list is not empty).
xform(ds, cur) ==
  LET x == XformLoop(XformStart, ds)
      r == Returns(x)
  IN [ heads |-> IF x.h # <<>>
                 THEN [ x.h EXCEPT ![Len(x.h)] = endot(x.h[Len(x.h)]) ]
                 ELSE cur.heads,
       out |-> IF x.o # <<>> THEN OutNames(x.o) ELSE cur.out,
       params |-> IF x.p # <<>> THEN MapEndot(x.p) ELSE cur.params,
       tails |-> IF r \o x.v \o x.b # <<>>
                 THEN MapEndot(r \o x.v \o x.b)
                 ELSE cur.tails ]

\* one call of Func.xform
Xform ==
  /\ mode = "func"
  /\ pc = "parsed"
  /\ LET y == xform(docs, [ heads |-> heads, out |-> out,
                            params |-> params, tails |-> tails ])
     IN /\ heads' = y.heads
        /\ out' = y.out
        /\ params' = y.params
        /\ tails' = y.tails
  /\ pc' = "xformed"
  /\ UNCHANGED << mode, pars, docs, notFuncVars >>

FuncNext == Xform

SpecFunc == FuncInit /\ [][FuncNext]_vars

\* ------------------------------------------------------------------------
\* errorf, errors: the diagnostic counter and its checkpoints
\* ------------------------------------------------------------------------

\* Number of diagnostics reported before a checkpoint is reached.
MaxErrors == 11

\* A plausible slip: the status is the count itself.
ExitStatusUncapped(count) == count

\* x = min(n, 9)
ExitStatus(count) == Min(count, 9)

\* errorf, called once for each message of msgs: the new counter
Errorf(count, msgs) == count + Len(msgs)

\* errors(fmt, base), reached with the counter at count and the diagnostics
\* written so far in written; next is where the caller continues.
errors(count, written, base, next) ==
  IF count > base
  THEN LET nn == count - base
           x == ExitStatus(nn)
       IN /\ ckpt' = << [ base |-> base, count |-> count, x |-> << x >> ] >>
          /\ nerrors' = Errorf(count, << "exit" >>)
          /\ log' = Append(written, [ msg |-> "exit", args |-> << nn, x >> ])
          /\ exit' = << x >>
          /\ pc' = "exited"
  ELSE /\ ckpt' = << [ base |-> base, count |-> count, x |-> << >> ] >>
       /\ nerrors' = count
       /\ log' = written
       /\ exit' = exit
       /\ pc' = next

ErrorsInit ==
  /\ mode = "errors"
  /\ pc = "run"
  /\ nerrors = 0
  /\ e = 0
  /\ exit = <<>>
  /\ log = <<>>
  /\ ckpt = <<>>
  /\ GroupsIdle
  /\ EnumsIdle
  /\ FlagsIdle
  /\ FuncIdle
  /\ MainIdle

\* any call of errorf that reports a defect of the input
Diagnose ==
  /\ mode = "errors"
  /\ pc = "run"
  /\ nerrors < MaxErrors
  /\ nerrors' = Errorf(nerrors, << "diagnostic" >>)
  /\ log' = Append(log, [ msg |-> "diagnostic", args |-> <<>> ])
  /\ UNCHANGED << mode, pc, e, exit, ckpt, notErrVars >>

\* check_types: e = _nerrors
Capture ==
  /\ mode = "errors"
  /\ pc = "run"
  /\ e # nerrors
  /\ e' = nerrors
  /\ UNCHANGED << mode, pc, nerrors, exit, log, ckpt, notErrVars >>

\* check_types: errors('%s type conversion(s) missing', e)
TypeCheckpoint ==
  /\ mode = "errors"
  /\ pc = "run"
  /\ errors(nerrors, log, e, "run")
  /\ UNCHANGED << mode, e, notErrVars >>

\* __main__: errors('%s error(s) reported')
FinalCheckpoint ==
  /\ mode = "errors"
  /\ pc = "run"
  /\ errors(nerrors, log, 0, "done")
  /\ UNCHANGED << mode, e, notErrVars >>

ErrorsNext ==
  \/ Diagnose
  \/ Capture
  \/ TypeCheckpoint
  \/ FinalCheckpoint

SpecErrors == ErrorsInit /\ [][ErrorsNext]_vars

\* ------------------------------------------------------------------------
\* Parser: parse_param, parse_callbacks, parse_funcs
\* ------------------------------------------------------------------------
\* A declaration is what parse_groups yields for it: the groups of the
\* regular expression, as tokens, and the lines of the doc string.  In a
\* parameter list a '*' is written against the word that follows it
\* ('char *psz', 'void *'), and no declaration uses VLC_FORWARD.

\* Number of declarations (functions and callback typedefs) of the header.
MaxDecls == 2

RECURSIVE SplitComma(_)
\* paramlist_re.split(q)
SplitComma(q) ==
  IF "," \notin Range(q) THEN << q >>
  ELSE LET k == CHOOSE i \in 1..Len(q) :
                  q[i] = "," /\ \A j \in 1..(i - 1) : q[j] # ","
       IN << SubSeq(q, 1, k - 1) >> \o SplitComma(SubSeq(q, k + 1, Len(q)))

RECURSIVE Cat(_)
\* the text of a token sequence once its blanks are removed
Cat(q) == IF q = <<>> THEN "" ELSE Head(q) \o Cat(Tail(q))

RECURSIVE JoinWords(_)
\* the text of a token sequence, one blank between tokens
JoinWords(q) ==
  IF q = <<>> THEN ""
  ELSE IF Len(q) = 1 THEN q[1]
  ELSE q[1] \o " " \o JoinWords(Tail(q))

\* the number of blank-separated pieces of the text of t
Pieces(t) ==
  Cardinality({ i \in 1..Len(t) : t[i] # "*" })
    + (IF t # <<>> /\ Last(t) = "*" THEN 1 ELSE 0)

RECURSIVE LeadingStars(_)
LeadingStars(q) ==
  IF q # <<>> /\ Head(q) = "*" THEN 1 + LeadingStars(Tail(q)) ELSE 0

RECURSIVE Stars(_)
Stars(k) == IF k = 0 THEN "" ELSE "*" \o Stars(k - 1)

\* Parser.parse_param(param): a Par
parse_param(param) ==
  LET t == Without(param, { "const" })
      \* param_re: a leading 'unsigned' or 'struct' is dropped when a type
      \* and a name still follow it
      q == IF t # <<>> /\ t[1] \in { "unsigned", "struct" } /\ Pieces(t) >= 3
           THEN Tail(t) ELSE t
      k == LeadingStars(Tail(q))
  IN IF Pieces(t) >= 2
     THEN [ name |-> JoinWords(SubSeq(q, k + 2, Len(q))),
            type |-> q[1] \o Stars(k) ]
     ELSE [ name |-> "", type |-> Cat(t) ]

\* [self.parse_param(p) for p in paramlist_re.split(pars)]
ParsedPars(text) ==
  LET ps == SplitComma(text) IN [ j \in 1..Len(ps) |-> parse_param(ps[j]) ]

\* Func(name, type, pars, docs, line=line); the other attributes are those
\* of the class
Func(name, type, ps, ds, line) ==
  [ name |-> name, type |-> type, pars |-> ps, docs |-> ds,
    heads |-> <<>>, out |-> <<>>, params |-> <<>>, tails |-> <<>>,
    wrapped |-> 0, line |-> line ]

\* 'param%d' % i
ParamN(i) == "param" \o Cat(Str(i))

\* A plausible slip: any difference of the two counts is reported.
MissingNamesWhenDifferent(nn, ps) == Len(nn) # Len(ps)

\* len(n) < len(pars)
MissingNames(nn, ps) == Len(nn) < Len(ps)

\* n after n.extend('param%d' % i for i in range(len(n), len(pars)))
Extended(nn, ps) ==
  LET more == IF Len(ps) > Len(nn) THEN Len(ps) - Len(nn) ELSE 0
  IN nn \o [ j \in 1..more |-> ParamN(Len(nn) + j - 1) ]

\* for i, p in enumerate(pars): p.name = n[i]
Renamed(ps, nn) == [ j \in 1..Len(ps) |-> [ ps[j] EXCEPT !.name = nn[j] ] ]

\* any(p for p in pars if not p.name)
AnyNameless(ps) == \E j \in 1..Len(ps) : ps[j].name = ""

\* The body of the loop of parse_funcs for one declaration that is not
\* blacklisted: the parameters of the Func and the diagnostics reported.
FuncPars(fname, text, ds) ==
  LET ps == ParsedPars(text)
      nn == DocParamNames(ds)
  IN IF Len(ps) = 1 /\ ps[1].type = "void"
     THEN [ pars |-> <<>>, msgs |-> <<>> ]
     ELSE IF AnyNameless(ps)
     THEN IF MissingNames(nn, ps)
          THEN [ pars |-> Renamed(ps, Extended(nn, ps)),
                 msgs |-> << [ msg |-> "parameter(s) missing",
                              args |-> << Len(ps) - Len(nn), fname >> ] >> ]
          ELSE [ pars |-> Renamed(ps, nn), msgs |-> <<>> ]
     ELSE [ pars |-> ps, msgs |-> <<>> ]

\* one declaration: form, the groups type_ (callbacks only), name and pars,
\* and the doc lines
Decl(form, type_, name, ps, ds) ==
  [ form |-> form, type_ |-> type_, name |-> name, pars |-> ps, docs |-> ds ]

P(x) == << "\\param", x, "txt" >>

Decls ==
  { \* blacklisted
    Decl("func", <<>>, << "const", "char", "*", "libvlc_printerr" >>,
         << "const", "char", "*", "fmt", ",", "..." >>,
         << << "txt" >>, P("fmt") >>),
    Decl("func", <<>>, << "void", "libvlc_set_exit_handler" >>,
         << "libvlc_instance_t", "*", "p_instance", ",",
            "void", "*", "opaque" >>,
         << P("p_instance"), P("opaque") >>),
    \* a parameter list that is only void
    Decl("func", <<>>, << "const", "char", "*", "libvlc_get_version" >>,
         << "void" >>, << << "txt" >> >>),
    \* a sole void pointer
    Decl("func", <<>>, << "void", "libvlc_free" >>,
         << "void", "*", "ptr" >>, << P("ptr") >>),
    \* void among several parameters
    Decl("func", <<>>, << "int", "libvlc_clock" >>,
         << "int", "x", ",", "void" >>, << P("x") >>),
    \* types only, as many documented names
    Decl("func", <<>>, << "void", "libvlc_media_list_lock" >>,
         << "libvlc_media_list_t", "*" >>, << << "txt" >>, P("p_ml") >>),
    \* types only, fewer documented names
    Decl("func", <<>>, << "int", "libvlc_add_intf" >>,
         << "libvlc_instance_t", "*", ",", "const", "char", "*" >>,
         << P("p_instance") >>),
    \* types only, more documented names
    Decl("func", <<>>, << "void", "libvlc_retain" >>,
         << "libvlc_instance_t", "*" >>,
         << P("p_instance"), P("p_other") >>),
    \* one name given, one missing, both documented under other names
    Decl("func", <<>>, << "void", "libvlc_set_user_agent" >>,
         << "libvlc_instance_t", "*", "p_instance", ",",
            "const", "char", "*" >>,
         << P("p_i"), P("name") >>),
    \* a type without a conversion
    Decl("func", <<>>, << "int", "libvlc_wait" >>,
         << "size_t", "n" >>, << P("n") >>),
    \* functions returning a string the caller frees
    Decl("func", <<>>, << "int", "libvlc_media_get_mrl" >>,
         << "libvlc_media_t", "*", "p_md" >>, << P("p_md") >>),
    Decl("func", <<>>, << "char", "*", "libvlc_media_get_meta" >>,
         << "libvlc_media_t", "*", "p_md" >>, << P("p_md") >>),
    \* the length and the indexed access of a list
    Decl("func", <<>>, << "int", "libvlc_media_list_count" >>,
         << "libvlc_media_list_t", "*", "p_ml" >>, << P("p_ml") >>),
    Decl("func", <<>>,
         << "libvlc_media_t", "*", "libvlc_media_list_item_at_index" >>,
         << "libvlc_media_list_t", "*", "p_ml", ",", "int", "i_pos" >>,
         << P("p_ml"), P("i_pos") >>),
    \* callbacks
    Decl("callback", << "void" >>, << "libvlc_foo_cb" >>,
         << "void" >>, << << "txt" >> >>),
    Decl("callback", << "void" >>, << "libvlc_bar_cb" >>,
         << "void", "*", "opaque", ",", "size_t", "n" >>,
         << P("opaque"), P("n") >>) }

\* the declarations of the given form after position i of the header
After(form, i) ==
  { j \in (i + 1)..Len(header) : header[j].form = form }

\* The least element of a non-empty set of numbers.
Least(S) == CHOOSE j \in S : \A k \in S : j <= k

\* ------------------------------------------------------------------------
\* The run: Parser, PythonGenerator, save and the checkpoints
\* ------------------------------------------------------------------------
\* One run reads one header file and generates the Python bindings, entered
\* either from the command line (__main__) or through process().  The
\* boilerplate header.py holds the '# GENERATED_ENUMS' line, the header
\* declares no enum, and override.py is read when the wrappers are written.

free_string_funcs ==
  { "libvlc_media_discoverer_localized_name",
    "libvlc_media_get_mrl",
    "libvlc_media_get_meta",
    "libvlc_video_get_aspect_ratio",
    "libvlc_video_get_crop_geometry",
    "libvlc_video_get_marquee_string",
    "libvlc_audio_output_device_longname",
    "libvlc_audio_output_device_id",
    "libvlc_vlm_show_media" }

\* in the order of the tuple, which is also the sorted order
defined_classes ==
  << "EventManager", "Instance", "Log", "LogIterator", "Media",
     "MediaDiscoverer", "MediaLibrary", "MediaList", "MediaListPlayer",
     "MediaListView", "MediaPlayer" >>

\* convert_callbacks: the class name derived from a callback's name
\* (type_re, then title() without the underscores)
ClassNames ==
  Dict({ << "libvlc_foo_cb", "FooCb" >>, << "libvlc_bar_cb", "BarCb" >> })

\* the names of the declarations, in sorted() order
SortedNames ==
  << "libvlc_add_intf", "libvlc_clock", "libvlc_free", "libvlc_get_version",
     "libvlc_media_get_meta", "libvlc_media_get_mrl",
     "libvlc_media_list_count", "libvlc_media_list_item_at_index",
     "libvlc_media_list_lock", "libvlc_printerr", "libvlc_retain",
     "libvlc_set_exit_handler", "libvlc_set_user_agent", "libvlc_wait" >>

\* the elements of q that satisfy keep, in order
RECURSIVE Filter(_, _)
Filter(q, keep) ==
  IF q = <<>> THEN <<>>
  ELSE IF Head(q) \in keep THEN << Head(q) >> \o Filter(Tail(q), keep)
  ELSE Filter(Tail(q), keep)

\* sorted(names), names a list of declaration names
sorted(names) ==
  Flatten([ k \in 1..Len(SortedNames) |-> Filter(names, { SortedNames[k] }) ])

\* _Generator.class4
class4(type) ==
  IF type \in DOMAIN type2class /\ type2class[type] # ""
  THEN type2class[type]
  ELSE "FIXME_" \o type

\* one piece of text written by the generator
Item(what, name, types, lines) ==
  [ what |-> what, name |-> name, types |-> types, lines |-> lines,
    args |-> <<>>, flags |-> <<>>, errcheck |-> "" ]

\* Func.nparams of a Func
nparamsOf(f) ==
  IF Len(f.params) + Len(f.out) # 0 THEN Len(f.params) + Len(f.out)
  ELSE Len(DocParamNames(f.docs))

\* Func.check: the diagnostics it reports
FuncCheck(f) ==
  IF f.docs = <<>>
  THEN << [ msg |-> "no comment for function", args |-> << f.name >> ] >>
  ELSE IF Len(f.pars) # nparamsOf(f)
  THEN << [ msg |-> "doc parameters mismatch",
            args |-> << nparamsOf(f), f.name, Len(f.pars) >> ] >>
  ELSE <<>>

\* check_types: the diagnostics of one function
TypeMsgs(f) ==
  (IF f.type \notin DOMAIN type2class
   THEN << [ msg |-> "no type conversion", args |-> << f.type, f.name >> ] >>
   ELSE <<>>)
  \o Flatten([ j \in 1..Len(f.pars) |->
       IF f.pars[j].type \notin DOMAIN type2class
       THEN << [ msg |-> "no type conversion",
                 args |-> << f.pars[j].type, f.pars[j].name, f.name >> ] >>
       ELSE <<>> ])

\* A plausible slip: generation does not look at the counter.
MayGenerateAlways == TRUE

\* __main__: elif not _nerrors
MayGenerate == nerrors = 0

RunInit ==
  /\ mode = "run"
  /\ pc = "parse_callbacks"
  /\ entry \in { "main", "process" }
  /\ opts \in [ check : BOOLEAN, debug : BOOLEAN ]
  /\ entry = "process" => opts = [ check |-> FALSE, debug |-> FALSE ]
  /\ header \in SeqsUpTo(Decls, MaxDecls)
  /\ override = <<>>
  /\ previous = <<>>
  /\ hi = 0
  /\ funcs = <<>>
  /\ callbacks = <<>>
  /\ blacklist = Blacklist0
  /\ type2class = Type2Class0
  /\ output = <<>>
  /\ file = None
  /\ ErrorsIdle
  /\ GroupsIdle
  /\ EnumsIdle
  /\ FlagsIdle
  /\ FuncIdle

\* parse_callbacks: one callback typedef
ParseCallback ==
  /\ mode = "run"
  /\ pc = "parse_callbacks"
  /\ After("callback", hi) # {}
  /\ LET i == Least(After("callback", hi))
         dcl == header[i]
     IN /\ callbacks' = Append(callbacks,
                          Func(dcl.name[1], Cat(dcl.type_) \o "*",
                               ParsedPars(dcl.pars), dcl.docs, i))
        /\ hi' = i
  /\ UNCHANGED << mode, pc, entry, opts, header, override, previous, funcs, blacklist, type2class,
                  output, file, errVars, notMainVars >>

\* parse_callbacks: the header is exhausted; parse_funcs starts
EndCallbacks ==
  /\ mode = "run"
  /\ pc = "parse_callbacks"
  /\ After("callback", hi) = {}
  /\ pc' = "parse_funcs"
  /\ hi' = 0
  /\ UNCHANGED << mode, entry, opts, header, override, previous, funcs, callbacks, blacklist,
                  type2class, output, file, errVars, notMainVars >>

\* parse_funcs: one function declaration
ParseFunc ==
  /\ mode = "run"
  /\ pc = "parse_funcs"
  /\ After("func", hi) # {}
  /\ LET i == Least(After("func", hi))
         dcl == header[i]
         f == parse_param(dcl.name)
         r == FuncPars(f.name, dcl.pars, dcl.docs)
     IN /\ hi' = i
        /\ IF f.name \in DOMAIN blacklist
           THEN /\ blacklist' = [ blacklist EXCEPT ![f.name] = f.type ]
                /\ UNCHANGED << funcs, nerrors, log >>
           ELSE /\ funcs' = Append(funcs,
                              Func(f.name, f.type, r.pars, dcl.docs, i))
                /\ nerrors' = Errorf(nerrors, r.msgs)
                /\ log' = log \o r.msgs
                /\ UNCHANGED blacklist
  /\ UNCHANGED << mode, pc, entry, opts, header, override, previous, callbacks, type2class,
                  output, file, e, exit, ckpt, notMainVars >>

\* parse_funcs: the header is exhausted; the Parser is built
EndFuncs ==
  /\ mode = "run"
  /\ pc = "parse_funcs"
  /\ After("func", hi) = {}
  /\ pc' = "generator"
  /\ UNCHANGED << mode, entry, opts, header, override, previous, hi, funcs, callbacks, blacklist,
                  type2class, output, file, errVars, notMainVars >>

\* PythonGenerator.__init__ up to the call of check_types
GeneratorInit ==
  /\ mode = "run"
  /\ pc = "generator"
  /\ LET cbs == { callbacks[j].name : j \in 1..Len(callbacks) }
     IN type2class' =
          [ k \in DOMAIN type2class \cup cbs \cup { "libvlc_event_e" } |->
              IF k = "libvlc_event_e" THEN "EventType"
              ELSE IF k \in cbs THEN ClassNames[k]
              ELSE type2class[k] ]
  /\ funcs' = [ j \in 1..Len(funcs) |->
                 LET y == xform(funcs[j].docs, funcs[j])
                 IN [ funcs[j] EXCEPT !.heads = y.heads, !.out = y.out,
                                      !.params = y.params,
                                      !.tails = y.tails ] ]
  /\ pc' = "check_types"
  /\ UNCHANGED << mode, entry, opts, header, override, previous, hi, callbacks, blacklist,
                  output, file, errVars, notMainVars >>

\* _Generator.check_types
CheckTypes ==
  /\ mode = "run"
  /\ pc = "check_types"
  /\ e' = nerrors
  /\ LET msgs == Flatten([ j \in 1..Len(funcs) |-> TypeMsgs(funcs[j]) ])
     IN errors(Errorf(nerrors, msgs), log \o msgs, nerrors, "generated")
  /\ UNCHANGED << mode, mainVars, notMainVars >>

\* Parser.check (__main__, option --check)
ParserCheck ==
  /\ mode = "run"
  /\ pc = "generated"
  /\ entry = "main"
  /\ opts.check
  /\ LET msgs == Flatten([ j \in 1..Len(funcs) |-> FuncCheck(funcs[j]) ])
                 \o Flatten([ j \in 1..Len(callbacks) |->
                                FuncCheck(callbacks[j]) ])
     IN /\ nerrors' = Errorf(nerrors, msgs)
        /\ log' = log \o msgs
  /\ pc' = "final"
  /\ UNCHANGED << mode, e, exit, ckpt, mainVars, notMainVars >>

\* g.dump_dicts() (__main__, option --debug): writes to stderr only
DumpDicts ==
  /\ mode = "run"
  /\ pc = "generated"
  /\ entry = "main"
  /\ ~opts.check
  /\ opts.debug
  /\ pc' = "final"
  /\ UNCHANGED << mode, errVars, mainVars, notMainVars >>

\* __main__: diagnostics were reported, g.save is not called
SkipSave ==
  /\ mode = "run"
  /\ pc = "generated"
  /\ entry = "main"
  /\ ~opts.check
  /\ ~opts.debug
  /\ ~MayGenerate
  /\ pc' = "final"
  /\ UNCHANGED << mode, errVars, mainVars, notMainVars >>

\* generate_callbacks: what it writes
CallbackItems ==
  IF callbacks = <<>> THEN <<>>
  ELSE [ j \in 1..Len(callbacks) |->
           Item("class", class4(callbacks[j].name), <<>>,
                callbacks[j].docs) ]
       \o << Item("class", "CallbackDecorators", <<>>, <<>>) >>
       \o [ j \in 1..Len(callbacks) |->
              LET f == callbacks[j]
              IN Item("CFUNCTYPE", class4(f.name),
                      << class4(IF f.type # "void**" THEN f.type
                                ELSE "void*") >>
                      \o [ k \in 1..Len(f.pars) |-> class4(f.pars[k].type) ],
                      f.docs) ]
       \o << Item("cb", "CallbackDecorators", <<>>, <<>>) >>

\* save: outopen, insert_code('header.py', genums=True)
SaveOpen ==
  /\ mode = "run"
  /\ pc = "generated"
  /\ \/ entry = "process"
     \/ entry = "main" /\ ~opts.check /\ ~opts.debug /\ MayGenerate
  /\ file = None
  /\ file' = "open"
  /\ output' = output \o << Item("header", "header.py", <<>>, <<>>) >>
                      \o CallbackItems
  /\ pc' = "wrappers"
  /\ UNCHANGED << mode, entry, opts, header, override, previous, hi, funcs, callbacks, blacklist,
                  type2class, errVars, notMainVars >>

\* generate_wrappers: the functions whose first parameter is of class c
WrappedIn(c) ==
  { j \in 1..Len(funcs) :
      funcs[j].pars # <<>> /\ class4(funcs[j].pars[1].type) = c }

\* the elements of a set of positions, in increasing order
RECURSIVE Ascending(_)
Ascending(S) ==
  IF S = {} THEN <<>> ELSE << Least(S) >> \o Ascending(S \ { Least(S) })

ParNames(ps) == [ k \in 1..Len(ps) |-> ps[k].name ]

\* The contents of override.py: lines of tokens.  << "class", C >> is the
\* line 'class C:', << "def", m >> an indented line 'def m(...):', a line
\* between two triple quotes a one-line string literal, << "code" >> any
\* other line.
Overrides ==
  { <<>>,
    << << "class", "Instance" >>,
       << "'''", "doc", "'''" >>,
       << "def", "__new__" >>, << "code" >>,
       << "def", "retain" >>, << "code" >> >>,
    << << "code" >>,
       << "class", "MediaList" >>,
       << "def", "lock" >>, << "code" >>,
       << "class", "Media" >>,
       << "'''", "doc", "'''" >>,
       << "def", "get_meta" >>, << "code" >> >>,
    << << "class", "Instance" >>,
       << "def", "other" >>,
       << "class", "Instance" >>,
       << "'''", "doc", "'''" >> >> }

\* dict.get(k, default)
Get(dict, k, dflt) == IF k \in DOMAIN dict THEN dict[k] ELSE dflt

\* dict[k] = val
Put(dict, k, val) ==
  [ x \in DOMAIN dict \cup { k } |-> IF x = k THEN val ELSE dict[x] ]

RECURSIVE OverrideLoop(_, _)
\* parse_override: the loop over the lines; k is << >> for None
OverrideLoop(st, ls) ==
  IF ls = <<>> THEN st
  ELSE LET l == Head(ls)
       IN IF l[1] = "class"
          THEN OverrideLoop(
                 [ k |-> << l[2] >>, text |-> <<>>,
                   codes |-> IF st.k # <<>>
                             THEN Put(st.codes, st.k[1], st.text)
                             ELSE st.codes ],
                 Tail(ls))
          ELSE OverrideLoop([ st EXCEPT !.text = st.text \o l \o << "\n" >> ],
                            Tail(ls))

\* the positions of the token q in the text t
Occurrences(t, q) == { i \in 1..Len(t) : t[i] = q }

\* t.lstrip()[:3] is a triple quote
Quoted(t) ==
  LET w == { i \in 1..Len(t) : t[i] # "\n" }
  IN w # {} /\ t[Least(w)] \in { "'''", "\"\"\"" }

\* _, docstrs[k], t = t.split(q, 2): the second and third pieces
SplitDoc(t) ==
  LET q == t[Least({ i \in 1..Len(t) : t[i] # "\n" })]
      i1 == Least(Occurrences(t, q))
      i2 == Least(Occurrences(t, q) \ { i1 })
  IN [ doc |-> SubSeq(t, i1 + 1, i2 - 1), rest |-> SubSeq(t, i2 + 1, Len(t)) ]

\* def_re.findall(t): the names defined at the start of a line
RECURSIVE Defs(_, _)
Defs(t, i) ==
  IF i >= Len(t) THEN <<>>
  ELSE IF t[i] = "def" /\ (i = 1 \/ t[i - 1] = "\n")
       THEN << t[i + 1] >> \o Defs(t, i + 1)
       ELSE Defs(t, i + 1)

\* PythonGenerator.parse_override: (codes, methods, docstrs)
parse_override(lines) ==
  LET st == OverrideLoop([ k |-> <<>>, text |-> <<>>, codes |-> <<>> ], lines)
      raw == IF st.k # <<>> THEN Put(st.codes, st.k[1], st.text) ELSE st.codes
      codes == [ k \in DOMAIN raw |->
                   IF Quoted(raw[k]) THEN SplitDoc(raw[k]).rest ELSE raw[k] ]
  IN [ codes |-> codes,
       methods |-> [ k \in DOMAIN raw |-> Defs(codes[k], 1) ],
       docstrs |-> [ k \in { x \in DOMAIN raw : Quoted(raw[x]) } |->
                       SplitDoc(raw[k]).doc ] ]

\* the '_'-separated segments of the names of the functions
NameParts ==
  Dict({ << "libvlc_add_intf", << "libvlc", "add", "intf" >> >>,
         << "libvlc_clock", << "libvlc", "clock" >> >>,
         << "libvlc_free", << "libvlc", "free" >> >>,
         << "libvlc_get_version", << "libvlc", "get", "version" >> >>,
         << "libvlc_media_get_meta",
            << "libvlc", "media", "get", "meta" >> >>,
         << "libvlc_media_get_mrl", << "libvlc", "media", "get", "mrl" >> >>,
         << "libvlc_media_list_count",
            << "libvlc", "media", "list", "count" >> >>,
         << "libvlc_media_list_item_at_index",
            << "libvlc", "media", "list", "item", "at", "index" >> >>,
         << "libvlc_media_list_lock",
            << "libvlc", "media", "list", "lock" >> >>,
         << "libvlc_printerr", << "libvlc", "printerr" >> >>,
         << "libvlc_retain", << "libvlc", "retain" >> >>,
         << "libvlc_set_exit_handler",
            << "libvlc", "set", "exit", "handler" >> >>,
         << "libvlc_set_user_agent",
            << "libvlc", "set", "user", "agent" >> >>,
         << "libvlc_wait", << "libvlc", "wait" >> >> })

\* PythonGenerator.prefixes: for each defined class the segments of its C
\* type, less '_t*' (libvlc_media_list_t* -> 'libvlc_media_list_')
prefixes ==
  Dict({ << "EventManager", << "libvlc", "event", "manager" >> >>,
         << "Instance", << "libvlc", "instance" >> >>,
         << "LogIterator", << "libvlc", "log", "iterator" >> >>,
         << "Media", << "libvlc", "media" >> >>,
         << "MediaDiscoverer", << "libvlc", "media", "discoverer" >> >>,
         << "MediaLibrary", << "libvlc", "media", "library" >> >>,
         << "MediaList", << "libvlc", "media", "list" >> >>,
         << "MediaListPlayer", << "libvlc", "media", "list", "player" >> >>,
         << "MediaListView", << "libvlc", "media", "list", "view" >> >>,
         << "MediaPlayer", << "libvlc", "media", "player" >> >> })

RECURSIVE Replaced(_, _)
\* name.replace(x, ''), x a run of segments each followed by '_'
Replaced(q, x) ==
  IF Len(q) <= Len(x) THEN q
  ELSE IF SubSeq(q, 1, Len(x)) = x
       THEN Replaced(SubSeq(q, Len(x) + 1, Len(q)), x)
       ELSE << Head(q) >> \o Replaced(Tail(q), x)

RECURSIVE JoinUnder(_)
\* '_'.join(q)
JoinUnder(q) ==
  IF q = <<>> THEN ""
  ELSE IF Len(q) = 1 THEN q[1]
  ELSE q[1] \o "_" \o JoinUnder(Tail(q))

\* generate_wrappers: striprefix(name), with x the prefix of the class
striprefix(x, name) == Replaced(Replaced(NameParts[name], x), << "libvlc" >>)

\* meth.endswith('item_at_index')
EndsItemAtIndex(m) ==
  Len(m) >= 3 /\ SubSeq(m, Len(m) - 2, Len(m)) = << "item", "at", "index" >>

\* 'def __new__' in c
DefinesNew(c) ==
  \E i \in 1..(Len(c) - 1) : c[i] = "def" /\ c[i + 1] = "__new__"

\* A plausible slip: a function counts as wrapped only when its method is
\* written.
CountsAsWrappedWhenWritten(overridden) == ~overridden

\* f.wrapped += 1 comes before the override is looked at
CountsAsWrapped(overridden) == TRUE

\* A plausible slip: the override block replaces the constructor.
DefaultNewUnlessOverridden(c) == c = <<>>

\* if not 'def __new__' in c: the default constructor is written
DefaultNew(c) == ~DefinesNew(c)

\* generate_wrappers: the method name of function j in class c
MethOf(c, j) ==
  striprefix(Get(prefixes, c, << "libvlc" >>), funcs[j].name)

\* generate_wrappers: the method of function j is overridden in class c
Overridden(ov, c, j) ==
  JoinUnder(MethOf(c, j)) \in Range(Get(ov.methods, c, <<>>))

\* generate_wrappers: what is written for function f as method meth
MethodItems(c, f, meth) ==
  << [ Item("method", f.name, << c >>, << meth >>) EXCEPT
         !.args = << "self" >> \o
                    ParNames(in_params_from(Tail(f.pars), f.out)) ] >>
  \o (IF JoinUnder(meth) = "count"
      THEN << Item("__len__", f.name, << c >>, <<>>) >>
      ELSE IF EndsItemAtIndex(meth)
      THEN << Item("__getitem__", f.name, << c >>, <<>>),
              Item("__iter__", f.name, << c >>, <<>>) >>
      ELSE <<>>)

\* generate_wrappers: the class c, its constructor, its override and its
\* methods
ClassItems(ov, c) ==
  LET js == Ascending(WrappedIn(c))
      code == Get(ov.codes, c, <<>>)
  IN IF js = <<>> THEN <<>>
     ELSE << Item("class", c, <<>>,
                  << Get(ov.docstrs, c, << "N/A" >>) >>) >>
          \o (IF DefaultNew(code)
              THEN << Item("__new__", c, <<>>, <<>>) >> ELSE <<>>)
          \o (IF code # <<>>
              THEN << Item("override", c, <<>>, << code >>) >> ELSE <<>>)
          \o Flatten([ k \in 1..Len(js) |->
                         IF Overridden(ov, c, js[k]) THEN <<>>
                         ELSE MethodItems(c, funcs[js[k]],
                                          MethOf(c, js[k])) ])

\* generate_wrappers
GenerateWrappers ==
  /\ mode = "run"
  /\ pc = "wrappers"
  /\ \E lines \in Overrides :
       LET ov == parse_override(lines)
       IN /\ override' = lines
          /\ output' = output \o Flatten([ k \in 1..Len(defined_classes) |->
                                  ClassItems(ov, defined_classes[k]) ])
          /\ funcs' = [ j \in 1..Len(funcs) |->
                         IF \E c \in Range(defined_classes) :
                              /\ j \in WrappedIn(c)
                              /\ CountsAsWrapped(Overridden(ov, c, j))
                         THEN [ funcs[j] EXCEPT !.wrapped = @ + 1 ]
                         ELSE funcs[j] ]
  /\ pc' = "ctypes"
  /\ UNCHANGED << mode, entry, opts, header, previous, hi, callbacks,
                  blacklist, type2class, file, errVars, notMainVars >>

\* generate_ctypes: raise TypeError('Function %s expected to return char*')
NotCharP(f) ==
  f.name \in free_string_funcs /\ class4(f.type) # "ctypes.c_char_p"

\* generate_ctypes: the decorator of one function
CtypesItem(f) ==
  LET rtype == class4(f.type)
      types == [ k \in 1..Len(f.pars) |-> class4(f.pars[k].type) ]
  IN [ Item("function", f.name,
            (IF f.name \in free_string_funcs
                \/ rtype \in Range(defined_classes)
             THEN << "ctypes.c_void_p" >> ELSE << rtype >>) \o types,
            <<>>)
       EXCEPT !.args = ParNames(in_params_from(f.pars, f.out)),
              !.flags = [ k \in 1..Len(f.pars) |->
                            flags(f.pars[k], f.out, None) ],
              !.errcheck =
                 IF f.name \in free_string_funcs THEN "string_result"
                 ELSE IF rtype \in Range(defined_classes)
                 THEN "class_result(" \o rtype \o ")"
                 ELSE "None" ]

\* generate_ctypes
GenerateCtypes ==
  /\ mode = "run"
  /\ pc = "ctypes"
  /\ LET bad == { j \in 1..Len(funcs) : NotCharP(funcs[j]) }
         k == IF bad = {} THEN Len(funcs) ELSE Least(bad) - 1
     IN /\ output' = output
                     \o << Item("comment", "LibVLC __version__ functions",
                                <<>>, <<>>) >>
                     \o [ j \in 1..k |-> CtypesItem(funcs[j]) ]
        /\ pc' = IF bad = {} THEN "unwrapped" ELSE "TypeError"
  /\ UNCHANGED << mode, entry, opts, header, override, previous, hi, funcs, callbacks, blacklist,
                  type2class, file, errVars, notMainVars >>

\* A plausible slip: every name of the blacklist is listed.
BlacklistedAll(bl) == DOMAIN bl

\* b = [f for f, t in _blacklist.items() if t]
Blacklisted(bl) == { f \in DOMAIN bl : bl[f] # "" }

\* unwrapped: one list of names, under its title
Audit(names, title) ==
  IF names = <<>> THEN <<>>
  ELSE << [ Item("audit", title, <<>>,
                 [ k \in 1..Len(names) |-> << "#", sorted(names)[k] >> ])
            EXCEPT !.args = << Len(names) >> ] >>

\* _Generator.unwrapped
Unwrapped ==
  /\ mode = "run"
  /\ pc = "unwrapped"
  /\ LET b == Filter(SortedNames, Blacklisted(blacklist))
         u == Flatten([ j \in 1..Len(funcs) |->
                          IF funcs[j].wrapped = 0
                          THEN << funcs[j].name >> ELSE <<>> ])
     IN output' = output \o Audit(b, "blacklisted")
                         \o Audit(u, "not wrapped as methods")
  /\ pc' = "footer"
  /\ UNCHANGED << mode, entry, opts, header, override, previous, hi, funcs, callbacks, blacklist,
                  type2class, file, errVars, notMainVars >>

\* save: insert_code('footer.py'), outclose
SaveClose ==
  /\ mode = "run"
  /\ pc = "footer"
  /\ output' = Append(output, Item("footer", "footer.py", <<>>, <<>>))
  /\ file' = None
  /\ pc' = IF entry = "main" THEN "final" ELSE "returned"
  /\ UNCHANGED << mode, entry, opts, header, override, previous, hi, funcs, callbacks, blacklist,
                  type2class, errVars, notMainVars >>

\* __main__: errors('%s error(s) reported')
Final ==
  /\ mode = "run"
  /\ pc = "final"
  /\ errors(nerrors, log, 0, "done")
  /\ UNCHANGED << mode, e, mainVars, notMainVars >>

RunNext ==
  \/ ParseCallback
  \/ EndCallbacks
  \/ ParseFunc
  \/ EndFuncs
  \/ GeneratorInit
  \/ CheckTypes
  \/ ParserCheck
  \/ DumpDicts
  \/ SkipSave
  \/ SaveOpen
  \/ GenerateWrappers
  \/ GenerateCtypes
  \/ Unwrapped
  \/ SaveClose
  \/ Final

SpecRun == RunInit /\ [][RunNext]_vars

\* ------------------------------------------------------------------------
\* process called twice in one process
\* ------------------------------------------------------------------------

\* A plausible slip: the second Parser goes on with the list of the first.
FuncsKept(fs) == fs

\* Parser.__init__: self.funcs of a new Parser, whatever an earlier Parser
\* held
FuncsOfNewParser(fs) == <<>>

TwiceInit ==
  /\ RunInit
  /\ entry = "process"

\* process has returned and is called once more, on the same header or on
\* an empty one: a new Parser, a new PythonGenerator and a new output file,
\* in a process whose module and class attributes are those the first call
\* left
ProcessAgain ==
  /\ mode = "run"
  /\ pc = "returned"
  /\ entry = "process"
  /\ previous = <<>>
  /\ previous' = << [ header |-> header, override |-> override,
                      output |-> output ] >>
  /\ header' \in { header, <<>> }
  /\ override' = <<>>
  /\ hi' = 0
  /\ funcs' = FuncsOfNewParser(funcs)
  /\ callbacks' = <<>>
  /\ output' = <<>>
  /\ pc' = "parse_callbacks"
  /\ UNCHANGED << mode, entry, opts, blacklist, type2class, file, errVars,
                  notMainVars >>

TwiceNext ==
  \/ ParseCallback
  \/ EndCallbacks
  \/ ParseFunc
  \/ EndFuncs
  \/ GeneratorInit
  \/ CheckTypes
  \/ SaveOpen
  \/ GenerateWrappers
  \/ GenerateCtypes
  \/ Unwrapped
  \/ SaveClose
  \/ ProcessAgain

SpecTwice == TwiceInit /\ [][TwiceNext]_vars

\* ------------------------------------------------------------------------
\* C2: enum values
\* ------------------------------------------------------------------------

\* A fragment that is nothing but one comment.
CommentOnly(t) == StartsComment(t) /\ EndsComment(t)

\* The integer a literal denotes: base 16 when prefixed 0x, otherwise base 10.
LitValue(cs) ==
  IF StartsWith0x(cs) THEN DigitsValue(SubSeq(cs, 3, Len(cs)), 16)
  ELSE IF cs[1] = "-" THEN 0 - DigitsValue(Tail(cs), 10)
  ELSE DigitsValue(cs, 10)

SetMax(S) == CHOOSE x \in S : \A y \in S : y <= x

RECURSIVE ExpValue(_, _)
\* The value of the entry at fragment j, E being the fragments that are entries:
\* its literal's integer, or the previous entry's value plus one, or 0.
ExpValue(E, j) ==
  IF HasEq(frags[j]) THEN LitValue(PairValue(frags[j]))
  ELSE LET prev == { k \in E : k < j }
       IN IF prev = {} THEN 0 ELSE ExpValue(E, SetMax(prev)) + 1

\* The fragment of the m-th entry among E.
NthOf(E, m) == CHOOSE j \in E : Cardinality({ k \in E : k <= j }) = m

\* The Vals built so far are those of the entries E read so far, in order,
\* each with the value ExpValue gives it; the running value is the last one.
ValuesFollow(E) ==
  LET done == { j \in E : j <= fi }
  IN /\ Len(vals) = Cardinality(done)
     /\ \A m \in 1..Len(vals) :
          LET j == NthOf(done, m)
          IN /\ LitValue(vals[m].value) = ExpValue(E, j)
             /\ HasEq(frags[j]) => vals[m].value = PairValue(frags[j])
             /\ ~HasEq(frags[j]) => vals[m].value = Str(ExpValue(E, j))
     /\ v = IF done = {} THEN -1 ELSE ExpValue(E, SetMax(done))

\* C2 as stated: every entry of the value list, that is every fragment that
\* is neither empty nor only a comment, gets a Val: with '=' the integer of
\* its literal, without '=' the previous entry's value plus one, 0 when first;
\* comment-only fragments produce no Val and do not advance the value.
C2_EveryEntryGetsItsValue ==
  (mode = "enums" /\ pc # "ValueError") =>
    ValuesFollow({ j \in 1..Len(frags) :
                     frags[j] # <<>> /\ ~CommentOnly(frags[j]) })

\* C2 amended: the same, the entries being the fragments that are not empty
\* and do not start with a comment: a fragment that starts with a comment
\* produces no Val and does not advance the value, also when an entry follows
\* the comment in that fragment.
C2_EntriesNotStartingWithComment ==
  (mode = "enums" /\ pc # "ValueError") =>
    ValuesFollow({ j \in 1..Len(frags) :
                     frags[j] # <<>> /\ ~StartsComment(frags[j]) })

\* A hexadecimal entry, a comment and an entry without a value were parsed.
C2_Witness ==
  /\ mode = "enums"
  /\ pc = "yielded"
  /\ frags = << << "libvlc_foo_d", "=", "0", "x", "1", "0" >>,
                << "/*", "c", "*/" >>,
                << "libvlc_foo_a" >> >>
  /\ vals = << Val(<< "libvlc_foo_d" >>, << "0", "x", "1", "0" >>),
               Val(<< "libvlc_foo_a" >>, << "1", "7" >>) >>

\* ------------------------------------------------------------------------
\* C3: multi-line accumulation
\* ------------------------------------------------------------------------

RECURSIVE SBefore(_)
\* The in-comment flag before line i is read, recomputed from the lines alone.
SBefore(i) ==
  IF i <= 1 THEN FALSE
  ELSE LET t == h_file[i - 1]
       IN IF IsDocLine(t) THEN SBefore(i - 1)
          ELSE IF SBefore(i - 1) \/ StartsComment(Strip(t))
               THEN ~EndsComment(Strip(t))
               ELSE FALSE

\* Line i is a declaration line: neither documentation nor ordinary comment.
DeclLine(i) ==
  /\ ~IsDocLine(h_file[i])
  /\ ~(SBefore(i) \/ StartsComment(Strip(h_file[i])))

\* The declaration text of line i as accumulated: trailing comment removed.
DeclText(i) == BeforeComment(Strip(h_file[i]))

\* Line i is a declaration line that ends with the terminator.
TermLine(i) == DeclLine(i) /\ EndsWith(DeclText(i), Ends(kind))

\* The first terminator line after line o, or 0 when none has been read.
CloseOf(o) ==
  LET later == { i \in (o + 1)..n : TermLine(i) }
  IN IF later = {} THEN 0 ELSE CHOOSE i \in later : \A j \in later : i <= j

RECURSIVE Opener(_)
\* Line o is a candidate line that does not end with the terminator, read
\* while no earlier accumulation is open.
Opener(o) ==
  /\ DeclLine(o)
  /\ match_t(kind, Strip(h_file[o]))
  /\ ~EndsWith(Strip(h_file[o]), Ends(kind))
  /\ \A p \in 1..(o - 1) : Opener(p) => (CloseOf(p) # 0 /\ CloseOf(p) < o)

RECURSIVE AccText(_, _)
\* The texts of line o and of the declaration lines after it, up to line c.
AccText(o, c) ==
  IF c < o THEN <<>>
  ELSE IF c = o THEN << Strip(h_file[o]) >>
  ELSE IF DeclLine(c) THEN Append(AccText(o, c - 1), DeclText(c))
  ELSE AccText(o, c - 1)

TriedAt(i) == { k \in 1..Len(tried) : tried[k].line = i }

YieldsAt(i) == { k \in 1..Len(yields) : yields[k].line = i }

\* C3: a candidate line that does not end with the terminator opens an
\* accumulation of that line and every following declaration line up to and
\* including the first one that ends with the terminator; there the
\* structural pattern is applied exactly once, to the joined text of all
\* accumulated lines; nothing is matched or yielded before that line, and at
\* most one group is yielded on it.
C3_AccumulateUntilTerminator ==
  mode = "groups" =>
    \A o \in 1..n :
      Opener(o) =>
        LET c == CloseOf(o)
        IN IF c = 0
           THEN /\ a = AccText(o, n)
                /\ \A i \in o..n : TriedAt(i) = {} /\ YieldsAt(i) = {}
           ELSE /\ \A i \in o..(c - 1) : TriedAt(i) = {} /\ YieldsAt(i) = {}
                /\ Cardinality(TriedAt(c)) = 1
                /\ \A k \in TriedAt(c) : tried[k].text = Flatten(AccText(o, c))
                /\ Cardinality(YieldsAt(c)) <= 1
                /\ \A k \in YieldsAt(c) :
                     yields[k].groups = Groups(kind, Flatten(AccText(o, c)))

\* A declaration spread over three physical lines has been yielded.
C3_Witness ==
  /\ mode = "groups"
  /\ n = 3
  /\ Opener(1)
  /\ DeclLine(2)
  /\ CloseOf(1) = 3
  /\ Len(AccText(1, 3)) = 3
  /\ YieldsAt(3) # {}

\* ------------------------------------------------------------------------
\* C4: Par.flags
\* ------------------------------------------------------------------------

\* C4: the flag Par.flags returns is Out exactly when the parameter's name is
\* in the [OUT] name list or its type is int*, unsigned* or
\* libvlc_media_track_info_t**, and In otherwise: never InOut or InZero,
\* whatever the default argument is.
C4_FlagsOutIffListedOrOutType ==
  (mode = "flags" /\ pc = "returned") =>
    LET isOut == \/ \E i \in 1..Len(outArg) : outArg[i] = par.name
                 \/ par.type = "int*"
                 \/ par.type = "unsigned*"
                 \/ par.type = "libvlc_media_track_info_t**"
    IN /\ ret[1] = (IF isOut THEN FlagOut ELSE FlagIn)
       /\ ret[1] \notin { FlagInOut, FlagInZero }
       /\ Len(ret) = (IF default = None THEN 1 ELSE 3)

\* A parameter of an ordinary type, named in the [OUT] list, classified Out.
C4_Witness ==
  /\ mode = "flags"
  /\ pc = "returned"
  /\ par.type = "char*"
  /\ par.name = "px"
  /\ outArg = << "p_mi", "px" >>
  /\ ret = << FlagOut >>

\* ------------------------------------------------------------------------
\* C5: args() and the documented parameter count
\* ------------------------------------------------------------------------

\* Exactly one parameter tag per declared parameter, same names, same order.
WellFormedDocs ==
  DocParamNames(docs) = [ i \in 1..Len(pars) |-> pars[i].name ]

\* C5 as stated: with well-formed documentation, after xform, the number of
\* names args() returns plus the number of output-parameter names equals the
\* documented parameter count.
C5_ArgsPlusOutIsDocumented ==
  (mode = "func" /\ pc = "xformed" /\ WellFormedDocs) =>
    Len(args(0)) + Len(out) = Len(params) + Len(out)

\* Every parameter of a hardcoded output type is tagged [OUT] in the docs.
OutTypesTagged ==
  \A i \in 1..Len(pars) :
    pars[i].type \in OutTypes => pars[i].name \in Range(out)

\* C5 amended: the same, provided every parameter whose C type is one of the
\* hardcoded output types is tagged [OUT] in the documentation.
C5_ArgsPlusOutIsDocumentedWhenTagged ==
  (mode = "func" /\ pc = "xformed" /\ WellFormedDocs /\ OutTypesTagged) =>
    /\ Len(args(0)) + Len(out) = Len(params) + Len(out)
    /\ Len(params) + Len(out) = nparams
    /\ nparams = Len(pars)

\* A function with an input and a tagged output parameter was transformed.
C5_Witness ==
  /\ mode = "func"
  /\ pc = "xformed"
  /\ WellFormedDocs
  /\ OutTypesTagged
  /\ Len(pars) = 2
  /\ pars[2].type = "unsigned*"
  /\ out = << "px" >>
  /\ args(0) = << "p_mi" >>

\* ------------------------------------------------------------------------
\* C7: the checkpoint
\* ------------------------------------------------------------------------

\* what a step that runs a checkpoint against baseline base must do
CheckpointStep(base) ==
  IF nerrors > base
  THEN /\ pc' = "exited"
       /\ exit' = << IF nerrors - base < 9 THEN nerrors - base ELSE 9 >>
       /\ exit'[1] \in 1..9
  ELSE /\ pc' # "exited"
       /\ exit' = <<>>
       /\ nerrors' = nerrors

\* C7: a checkpoint terminates the process if and only if the error counter
\* exceeds the captured baseline, with exit status min(counter - baseline, 9),
\* always between 1 and 9; otherwise execution continues; and no step ever
\* decreases the counter.
C7_CheckpointExitsIffAboveBaseline ==
  /\ [][ ckpt' # ckpt =>
           /\ ckpt'[1].base \in { e, 0 }
           /\ ckpt'[1].count = nerrors
           /\ CheckpointStep(ckpt'[1].base) ]_vars
  /\ [][ nerrors' >= nerrors ]_vars
  /\ [][ exit # <<>> => UNCHANGED vars ]_vars

\* Ten diagnostics after a non-zero baseline: the status is capped at 9.
C7_Witness ==
  /\ mode = "errors"
  /\ pc = "exited"
  /\ ckpt # <<>>
  /\ ckpt[1].base > 0
  /\ ckpt[1].count - ckpt[1].base > 9
  /\ exit = << 9 >>

\* ------------------------------------------------------------------------
\* The run: vocabulary of the claims
\* ------------------------------------------------------------------------

\* both passes of the Parser over the header are finished
Parsed == mode = "run" /\ pc \notin { "parse_callbacks", "parse_funcs" }

\* check_types has returned or terminated the process
TypeChecked == Parsed /\ pc \notin { "generator", "check_types" }

\* save has written its last piece
Written == output # <<>> /\ Last(output).what = "footer"

\* unwrapped has written its comments
Audited == mode = "run" /\ (pc = "footer" \/ Written)

\* the name a function declaration declares: its last token
DeclaredName(dcl) == Last(dcl.name)

\* the type a function declaration declares: what precedes the name,
\* without const and without blanks
DeclaredType(dcl) ==
  Cat(Without(SubSeq(dcl.name, 1, Len(dcl.name) - 1), { "const" }))

\* the declared parameter list is the single type void
SoleVoid(dcl) == dcl.pars = << "void" >>

\* the diagnostics of the given kind reported so far
Reports(msg) == { k \in 1..Len(log) : log[k].msg = msg }

\* the type tokens a Func refers to
TypesOf(f) == { f.type } \cup { f.pars[k].type : k \in 1..Len(f.pars) }

\* every type token written to the output
EmittedTypes == UNION { Range(output[k].types) : k \in 1..Len(output) }

\* ------------------------------------------------------------------------
\* C1: unresolved types
\* ------------------------------------------------------------------------

\* a diagnostic names the type ty
TypeReported(ty) ==
  \E k \in Reports("no type conversion") : log[k].args[1] = ty

\* C1: once the type check has run, every type token of a function or of a
\* callback that the type mapping does not resolve has a diagnostic, and no
\* placeholder FIXME_<type> is in the output without a diagnostic for <type>.
C1_EveryUnresolvedTypeIsReported ==
  TypeChecked =>
    \A f \in Range(funcs) \cup Range(callbacks) :
      \A ty \in TypesOf(f) :
        /\ ty \notin DOMAIN type2class => TypeReported(ty)
        /\ ("FIXME_" \o ty) \in EmittedTypes => TypeReported(ty)

\* ------------------------------------------------------------------------
\* C6: blacklisted functions
\* ------------------------------------------------------------------------

\* the declarations of blacklisted functions that parse_funcs has reached
BlacklistedDecls ==
  { i \in 1..Len(header) :
      /\ header[i].form = "func"
      /\ DeclaredName(header[i]) \in BlacklistNames
      /\ Parsed \/ (pc = "parse_funcs" /\ hi >= i) }

\* the lines of the 'blacklisted' audit comments written
BlacklistedLines ==
  UNION { Range(output[k].lines) :
            k \in { j \in 1..Len(output) :
                      /\ output[j].what = "audit"
                      /\ output[j].name = "blacklisted" } }

\* C6 as stated: the audit comment lists each blacklisted function of the
\* header together with its recorded type.
C6_AuditListsNameWithType ==
  Audited =>
    \A i \in BlacklistedDecls :
      \E l \in BlacklistedLines :
        /\ DeclaredName(header[i]) \in Range(l)
        /\ blacklist[DeclaredName(header[i])] \in Range(l)

\* C6: a blacklisted function of the header is never in the function list,
\* no declaration and no method is written for it, its declared type is
\* recorded in the blacklist, and once the audit comments are written the
\* 'blacklisted' comment lists exactly the names of the blacklisted
\* functions of the header, each on a line holding the comment mark and the
\* name only.
C6_BlacklistedDroppedAndAuditedByName ==
  /\ \A i \in BlacklistedDecls :
       LET nm == DeclaredName(header[i])
       IN /\ \A j \in 1..Len(funcs) : funcs[j].name # nm
          /\ \A k \in 1..Len(output) :
               output[k].what \in { "function", "method" }
                 => output[k].name # nm
          /\ blacklist[nm] = DeclaredType(header[i])
          /\ blacklist[nm] # ""
  /\ Audited =>
       BlacklistedLines =
         { << "#", DeclaredName(header[i]) >> : i \in BlacklistedDecls }

\* Two blacklisted functions, declared in the reverse of the sorted order,
\* have been audited.
C6_Witness ==
  /\ Audited
  /\ Len(header) = 2
  /\ DeclaredName(header[1]) = "libvlc_set_exit_handler"
  /\ DeclaredName(header[2]) = "libvlc_printerr"
  /\ \E k \in 1..Len(output) :
       /\ output[k].what = "audit"
       /\ output[k].lines = << << "#", "libvlc_printerr" >>,
                               << "#", "libvlc_set_exit_handler" >> >>
  /\ blacklist["libvlc_printerr"] = "char*"

\* ------------------------------------------------------------------------
\* C8: diagnostics and generation
\* ------------------------------------------------------------------------

\* the run is over without a hard failure
Over == mode = "run" /\ pc \in { "exited", "done", "returned" }

\* C8 as stated: a run that is to generate bindings and meets no hard
\* failure writes its output whatever diagnostics were reported, and the
\* process terminates with the diagnostic status only after generation.
C8_DiagnosticsDoNotPreventGeneration ==
  /\ (Over /\ ~opts.check /\ ~opts.debug) => Written
  /\ (exit # <<>> /\ ~opts.check /\ ~opts.debug) => Written

\* C8: diagnostics never stop the parser or the type check half-way, but
\* they do prevent generation.  The process never terminates with the
\* diagnostic status after output was written; from the command line,
\* output is written only while no diagnostic at all has been reported;
\* through process(), which has no end-of-run checkpoint, a run that passes
\* the type check writes its output completely unless the hard failure
\* aborts it; the hard failure leaves the output begun and unfinished.
C8_DiagnosticsPreventGeneration ==
  /\ exit # <<>> => output = <<>> /\ pc = "exited"
  /\ (entry = "main" /\ output # <<>>) => nerrors = 0
  /\ (entry = "process" /\ pc = "returned") => Written /\ exit = <<>>
  /\ pc = "TypeError" => file = "open" /\ output # <<>> /\ ~Written
  /\ Parsed =>
       Len(funcs) + Len(callbacks) + Cardinality(BlacklistedDecls)
         = Len(header)
  /\ TypeChecked =>
       \A f \in Range(funcs) : \A ty \in TypesOf(f) :
         ty \notin DOMAIN type2class => TypeReported(ty)

\* A command-line run whose only defect is a missing parameter name ends
\* at the last checkpoint with status 1 and has written nothing.
C8_Witness ==
  /\ mode = "run"
  /\ entry = "main"
  /\ ~opts.check
  /\ ~opts.debug
  /\ pc = "exited"
  /\ exit = << 1 >>
  /\ ckpt[1].base = 0
  /\ Len(funcs) = 2
  /\ log[1].msg = "parameter(s) missing"
  /\ output = <<>>

\* ------------------------------------------------------------------------
\* C9: a parameter list that is only void
\* ------------------------------------------------------------------------

\* C9: every Func of the parser, function or callback, whose declaration
\* has the parameter list 'void' has no parameters; any other parameter
\* list keeps one parameter for each of its comma-separated pieces.
C9_SoleVoidIsCollapsed ==
  \A f \in Range(funcs) \cup Range(callbacks) :
    IF SoleVoid(header[f.line])
    THEN f.pars = <<>>
    ELSE Len(f.pars) = Len(SplitComma(header[f.line].pars))

\* ------------------------------------------------------------------------
\* C10: parameter names recovered from the documentation
\* ------------------------------------------------------------------------

\* 'param0', 'param1', ...
SynthNames == << "param0", "param1", "param2", "param3" >>

\* the names the word after each parameter tag of the doc lines
TagWords(ds) ==
  Flatten([ k \in 1..Len(ds) |->
              IF Len(ds[k]) >= 2 /\ ds[k][1] = "\\param"
              THEN << ds[k][2] >> ELSE <<>> ])

\* the declaration of f leaves a parameter without a name
Nameless(f) ==
  /\ ~SoleVoid(header[f.line])
  /\ \E k \in 1..Len(f.pars) :
       LET piece == Without(SplitComma(header[f.line].pars)[k], { "const" })
       IN Len(piece) = 1 \/ Last(piece) = "*"

\* the functions whose missing-names diagnostic is due under the rule
\* 'fewer documented names than parameters'
Fewer ==
  { j \in 1..Len(funcs) :
      /\ Nameless(funcs[j])
      /\ Len(TagWords(funcs[j].docs)) < Len(funcs[j].pars) }

\* the same under the rule 'the two numbers differ'
Differing ==
  { j \in 1..Len(funcs) :
      /\ Nameless(funcs[j])
      /\ Len(TagWords(funcs[j].docs)) # Len(funcs[j].pars) }

\* the parameters of every function with a nameless parameter are named
\* positionally after the documentation, then param<i>
NamedPositionally ==
  \A j \in 1..Len(funcs) :
    Nameless(funcs[j]) =>
      \A k \in 1..Len(funcs[j].pars) :
        funcs[j].pars[k].name =
          IF k <= Len(TagWords(funcs[j].docs))
          THEN TagWords(funcs[j].docs)[k]
          ELSE SynthNames[k]

\* one diagnostic for each function of js, and no other
ReportedExactly(js) ==
  /\ Cardinality(Reports("parameter(s) missing")) = Cardinality(js)
  /\ \A j \in js :
       \E k \in Reports("parameter(s) missing") :
         log[k].args = << Len(funcs[j].pars) - Len(TagWords(funcs[j].docs)),
                          funcs[j].name >>

\* C10 as stated: names are taken positionally, and a diagnostic is
\* recorded whenever the number of documented names differs from the
\* number of parameters.
C10_DiagnosticWhenCountsDiffer ==
  mode = "run" => NamedPositionally /\ ReportedExactly(Differing)

\* C10: when a parameter of a function has no name, every parameter of the
\* function is named positionally after the documentation's parameter
\* tags; a diagnostic is recorded exactly when the documentation has fewer
\* names than the function has parameters, the parameters beyond the
\* documented ones are named param<i>, and the function is produced.
C10_DiagnosticWhenFewerNames ==
  mode = "run" =>
    /\ NamedPositionally
    /\ ReportedExactly(Fewer)
    /\ nerrors >= Cardinality(Fewer)
    /\ \A i \in 1..Len(header) :
         (/\ header[i].form = "func"
          /\ DeclaredName(header[i]) \notin BlacklistNames
          /\ Parsed \/ (pc = "parse_funcs" /\ hi >= i))
         => \E j \in 1..Len(funcs) : funcs[j].line = i

\* A function declared with two nameless parameters and one documented
\* name has been parsed.
C10_Witness ==
  /\ mode = "run"
  /\ \E j \in 1..Len(funcs) :
       /\ funcs[j].name = "libvlc_add_intf"
       /\ ParNames(funcs[j].pars) = << "p_instance", "param1" >>
       /\ j \in Fewer
  /\ nerrors = 1

\* ------------------------------------------------------------------------
\* C11: [OUT] parameter lines and the return line
\* ------------------------------------------------------------------------

\* the doc lines that are parameter tags carrying the [OUT] marker
OutTagLines ==
  { i \in 1..Len(docs) : docs[i][1] = "\\param" /\ "[OUT]" \in Range(docs[i]) }

\* the doc lines that are parameter tags without the marker
InTagLines ==
  { i \in 1..Len(docs) :
      docs[i][1] = "\\param" /\ "[OUT]" \notin Range(docs[i]) }

\* the doc lines that are return tags
ReturnTagLines == { i \in 1..Len(docs) : docs[i][1] = "\\return" }

\* the lines of the tails that are return lines
ReturnTails == { i \in 1..Len(tails) : tails[i][1] = "@return:" }

\* the k-th line of a set of doc lines, in document order
KthLine(S, k) ==
  CHOOSE i \in S : Cardinality({ j \in S : j < i }) = k - 1

\* the text of a transformed line begins with the text of its original,
\* tag apart
KeepsText(line, orig) ==
  /\ Len(line) >= Len(orig)
  /\ SubSeq(line, 2, Len(orig)) = Tail(orig)

\* C11: after xform, the parameter lines are the parameter-tag lines
\* without [OUT], in order; the output-parameter list holds the names of the
\* parameter-tag lines with [OUT], in document order; with at least one
\* [OUT] line the tails hold exactly one return line, the first of the
\* tails, made of the output parameters and of no original return text; with
\* none, the tails hold the original return lines, in order.
C11_OutLinesBecomeTheReturnLine ==
  (mode = "func" /\ pc = "xformed") =>
    /\ Len(out) = Cardinality(OutTagLines)
    /\ \A k \in 1..Len(out) : out[k] = docs[KthLine(OutTagLines, k)][2]
    /\ Len(params) = Cardinality(InTagLines)
    /\ \A k \in 1..Len(params) :
         /\ "[OUT]" \notin Range(params[k])
         /\ params[k][1] = "@param"
         /\ params[k][2] = docs[KthLine(InTagLines, k)][2]
    /\ IF OutTagLines # {}
       THEN /\ ReturnTails = { 1 }
            /\ Without(tails[1], { "@return:", "txt", ",", "." }) = out
            /\ "[OUT]" \notin Range(tails[1])
       ELSE /\ Cardinality(ReturnTails) = Cardinality(ReturnTagLines)
            /\ \A k \in 1..Cardinality(ReturnTagLines) :
                 /\ k \in ReturnTails
                 /\ KeepsText(tails[k], docs[KthLine(ReturnTagLines, k)])

\* Two [OUT] parameters and an original return line have been transformed.
C11_Witness ==
  /\ mode = "func"
  /\ pc = "xformed"
  /\ Cardinality(OutTagLines) = 2
  /\ ReturnTagLines # {}
  /\ out = << "px", "p_mi" >>
  /\ Len(tails) = 1

\* ------------------------------------------------------------------------
\* C12: the wrapped counter and the 'not wrapped as methods' comment
\* ------------------------------------------------------------------------

\* generate_wrappers has returned
WrappersWritten == mode = "run" /\ output # <<>> /\ pc # "wrappers"

\* the class methods written for the function named nm
MethodsOf(nm) ==
  { k \in 1..Len(output) :
      output[k].what = "method" /\ output[k].name = nm }

\* the lines of the 'not wrapped as methods' comment
UnwrappedLines ==
  UNION { Range(output[k].lines) :
            k \in { i \in 1..Len(output) :
                      /\ output[i].what = "audit"
                      /\ output[i].name = "not wrapped as methods" } }

\* the first parameter of function j is of a defined class
OfDefinedClass(j) == \E c \in Range(defined_classes) : j \in WrappedIn(c)

\* override.py defines the method that function j would be wrapped as
OverriddenInFile(j) ==
  \E c \in Range(defined_classes) :
    j \in WrappedIn(c) /\ Overridden(parse_override(override), c, j)

\* C12 as stated: the counter of a function is one when a class method was
\* written for it and unchanged when none was, a skipped overridden method
\* included, and the 'not wrapped as methods' comment lists exactly the
\* functions for which no class method was written.
C12_WrappedCountsMethodsWritten ==
  /\ WrappersWritten =>
       \A j \in 1..Len(funcs) :
         funcs[j].wrapped = IF MethodsOf(funcs[j].name) # {} THEN 1 ELSE 0
  /\ Audited =>
       UnwrappedLines =
         { << "#", funcs[j].name >> :
             j \in { i \in 1..Len(funcs) : MethodsOf(funcs[i].name) = {} } }

\* C12: the counter of a function is zero until the wrappers are written and
\* afterwards one exactly when its first parameter is of a defined class,
\* whether its class method was written or skipped as overridden; a class
\* method is written for it exactly when it is of a defined class and not
\* overridden; and the 'not wrapped as methods' comment lists exactly the
\* functions whose first parameter is not of a defined class.
C12_WrappedCountsFunctionsOfDefinedClasses ==
  /\ ~WrappersWritten => \A j \in 1..Len(funcs) : funcs[j].wrapped = 0
  /\ WrappersWritten =>
       \A j \in 1..Len(funcs) :
         /\ funcs[j].wrapped = IF OfDefinedClass(j) THEN 1 ELSE 0
         /\ MethodsOf(funcs[j].name) # {}
              <=> \E i \in 1..Len(funcs) :
                    /\ funcs[i].name = funcs[j].name
                    /\ OfDefinedClass(i) /\ ~OverriddenInFile(i)
  /\ Audited =>
       UnwrappedLines =
         { << "#", funcs[j].name >> :
             j \in { i \in 1..Len(funcs) : ~OfDefinedClass(i) } }

\* libvlc_retain is overridden in class Instance: it is counted, no method
\* is written for it and the comment lists only the other function.
C12_Witness ==
  /\ Audited
  /\ Len(funcs) = 2
  /\ \E j \in 1..2 :
       /\ funcs[j].name = "libvlc_retain"
       /\ OverriddenInFile(j)
       /\ funcs[j].wrapped = 1
       /\ MethodsOf("libvlc_retain") = {}
       /\ funcs[3 - j].wrapped = 0
       /\ UnwrappedLines = { << "#", funcs[3 - j].name >> }

\* ------------------------------------------------------------------------
\* C20: override blocks
\* ------------------------------------------------------------------------

\* the positions in the output where a wrapper class starts
ClassStarts ==
  { k \in 1..Len(output) :
      output[k].what = "class" /\ output[k].name \in Range(defined_classes) }

\* the override block of class c as parse_override leaves it: without its
\* leading string literal
BlockOf(c) == Get(parse_override(override).codes, c, <<>>)

\* the method names written for class c
MethodNamesIn(c) ==
  { JoinUnder(output[k].lines[1]) :
      k \in { i \in 1..Len(output) :
                output[i].what = "method" /\ output[i].types = << c >> } }

\* the output holds the piece what of class c at position k
PieceAt(k, what, c) ==
  k <= Len(output) /\ output[k].what = what /\ output[k].name = c

\* C20 as stated: for a wrapper class with an override block the block is
\* written and the default constructor is not, and no method is written
\* whose name the block defines.
C20_BlockReplacesDefaultConstructor ==
  WrappersWritten =>
    \A k \in ClassStarts :
      LET c == output[k].name
      IN BlockOf(c) # <<>> =>
           /\ PieceAt(k + 1, "override", c)
           /\ output[k + 1].lines = << BlockOf(c) >>
           /\ \A i \in 1..Len(output) : ~PieceAt(i, "__new__", c)
           /\ MethodNamesIn(c) \cap Range(Defs(BlockOf(c), 1)) = {}

\* C20: a wrapper class starts with its documentation, the leading string
\* literal of its override block if it has one; the default constructor
\* follows exactly when the block does not define __new__, a missing or
\* empty block included; a block that is not empty follows verbatim, without
\* its leading string literal; and no method is written whose name the
\* block defines.
C20_BlockFollowsDefaultConstructor ==
  WrappersWritten =>
    LET ov == parse_override(override)
    IN \A k \in ClassStarts :
         LET c == output[k].name
             block == Get(ov.codes, c, <<>>)
             new == IF DefinesNew(block) THEN 0 ELSE 1
         IN /\ output[k].lines = << Get(ov.docstrs, c, << "N/A" >>) >>
            /\ PieceAt(k + 1, "__new__", c) <=> ~DefinesNew(block)
            /\ block # <<>> =>
                 /\ PieceAt(k + new + 1, "override", c)
                 /\ output[k + new + 1].lines = << block >>
            /\ block = <<>> => ~PieceAt(k + new + 1, "override", c)
            /\ MethodNamesIn(c) \cap Range(Defs(block, 1)) = {}

\* Class Media has an override block with a leading string literal and a
\* method get_meta but no __new__: the default constructor is written, then
\* the block, and of the two functions only libvlc_media_get_mrl is wrapped.
C20_Witness ==
  /\ WrappersWritten
  /\ \E k \in ClassStarts :
       /\ output[k].name = "Media"
       /\ output[k].lines = << << "doc" >> >>
       /\ PieceAt(k + 1, "__new__", "Media")
       /\ PieceAt(k + 2, "override", "Media")
       /\ output[k + 2].lines =
            << << "\n", "def", "get_meta", "\n", "code", "\n" >> >>
       /\ MethodNamesIn("Media") = { "get_mrl" }
  /\ { funcs[j].name : j \in 1..Len(funcs) } =
       { "libvlc_media_get_meta", "libvlc_media_get_mrl" }

\* ------------------------------------------------------------------------
\* C13: the lines of a doc string
\* ------------------------------------------------------------------------

\* the lines starting a documentation block read so far
BlockStarts == { b \in 1..n : StartsWith(h_file[b], "/**") }

RECURSIVE BlockEnd(_)
\* the last of the ' * ' lines directly following line b
BlockEnd(b) ==
  IF b < n /\ StartsWith(h_file[b + 1], " * ") THEN BlockEnd(b + 1) ELSE b

\* the doc string of the documentation block starting at line b
BlockDoc(b) ==
  DocString([ i \in 1..(BlockEnd(b) - b + 1) |-> Tail(h_file[b + i - 1]) ])

\* C13: the doc string yielded with a declaration is empty or that of one
\* documentation block before it, the line starting with '/**' and the
\* ' * ' lines directly following it: a ' * ' line read after the block was
\* closed by another line is in no doc string.
C13_DocIsOneBlock ==
  mode = "groups" =>
    \A k \in 1..Len(yields) :
      \/ yields[k].docs = <<>>
      \/ \E b \in BlockStarts :
           b < yields[k].line /\ yields[k].docs = BlockDoc(b)

\* ------------------------------------------------------------------------
\* C14: the buffers after a yield
\* ------------------------------------------------------------------------

\* the line of the yield before yield k, 0 for the first
PreviousYield(k) == IF k = 1 THEN 0 ELSE yields[k - 1].line

\* the lines read strictly between lines lo and up
Between(lo, up) == { i \in 1..n : lo < i /\ i < up }

RECURSIVE TextsOf(_)
\* the texts of the lines of S after their first three characters, in order
TextsOf(S) ==
  IF S = {} THEN <<>>
  ELSE << Tail(h_file[Least(S)]) >> \o TextsOf(S \ { Least(S) })

\* C14: when a line has yielded, the doc buffer and the accumulation buffer
\* are empty; a line starting a documentation block leaves that line alone
\* in the doc buffer; a declaration yielded with no '/**' line since the
\* yield before it gets none of the doc lines read before that yield, only
\* the ' * ' lines read since; and with no doc line at all since the yield
\* before it, it gets the empty doc string.
C14_BuffersEmptyAfterYield ==
  mode = "groups" =>
    /\ YieldsAt(n) # {} => (d = <<>> /\ a = <<>>)
    /\ (n > 0 /\ StartsWith(h_file[n], "/**")) => d = << Tail(h_file[n]) >>
    /\ \A k \in 2..Len(yields) :
         LET since == Between(PreviousYield(k), yields[k].line)
         IN /\ (\A i \in since : ~StartsWith(h_file[i], "/**"))
                 => yields[k].docs =
                      DocString(TextsOf({ i \in since : IsDocLine(h_file[i]) }))
            /\ (\A i \in since : ~IsDocLine(h_file[i]))
                 => yields[k].docs = <<>>

\* A documentation block is followed by two one-line declarations: the
\* first is yielded with the doc string and the second with none.
C14_Witness ==
  /\ mode = "groups"
  /\ n = 3
  /\ StartsWith(h_file[1], "/**")
  /\ Len(yields) = 2
  /\ yields[1].line = 2 /\ yields[1].docs = << "doc" >>
  /\ yields[2].line = 3 /\ yields[2].docs = <<>>
  /\ d = <<>> /\ a = <<>>

\* ------------------------------------------------------------------------
\* C15: the end of the input
\* ------------------------------------------------------------------------

\* C15: parse_groups records no diagnostic, and the step that ends the
\* input, an accumulation being open or the in-comment flag set or neither,
\* yields nothing more and leaves what was yielded before as it was.
C15_EndOfInputDropsSilently ==
  /\ [](mode = "groups" => (nerrors = 0 /\ log = <<>>))
  /\ [][(mode = "groups" /\ pc = "loop" /\ pc' = "closed")
          => (yields' = yields /\ nerrors' = nerrors /\ log' = log)]_vars

\* The input ended after a yielded declaration, with an accumulation open
\* and inside an ordinary comment.
C15_Witness ==
  /\ mode = "groups"
  /\ pc = "closed"
  /\ a # <<>>
  /\ s
  /\ Len(yields) = 1
  /\ yields[1].line = 1
  /\ n = 3

\* ------------------------------------------------------------------------
\* C19: the short name of a Val
\* ------------------------------------------------------------------------

\* the characters of the C name of a Val
CName(val) == Spelling[val.enum[1]]

\* the characters of cs from position i on
From(cs, i) == SubSeq(cs, i, Len(cs))

\* the positions of cs where a segment starts
SegmentStarts(cs) ==
  { 1 } \cup { i \in 2..(Len(cs) + 1) : cs[i - 1] = "_" }

\* the start of the last segment of cs and of the one before it
LastStart(cs) == CHOOSE i \in SegmentStarts(cs) :
                   \A j \in SegmentStarts(cs) : j <= i

PreviousStart(cs) ==
  LET before == SegmentStarts(cs) \ { LastStart(cs) }
  IN IF before = {} THEN 1
     ELSE CHOOSE i \in before : \A j \in before : j <= i

\* nm with the escape '_' before it when it starts with a digit
Escaped(nm) == IF nm[1] \in Range(DecDigits) THEN << "_" >> \o nm ELSE nm

\* the example enum { libvlc_foo_a, libvlc_foo_b = 5, libvlc_foo_c }
ExampleEnum ==
  << << "libvlc_foo_a" >>, << "libvlc_foo_b", "=", "5" >>,
     << "libvlc_foo_c" >> >>

\* the names and the values of the Vals parsed
NamesAndValues ==
  [ m \in 1..Len(vals) |-> << vals[m].name, vals[m].value >> ]

\* C19 as stated: the name is the last segment of the C name, with the
\* segment before it only when the last one is a single digit, and with an
\* escape '_' when that starts with a digit; the example enum gives a, b, c
\* with the values 0, 5, 6.
C19_BorrowsForASingleDigit ==
  mode = "enums" =>
    /\ \A m \in 1..Len(vals) :
         LET cs == CName(vals[m])
             start == IF SingleDigit(From(cs, LastStart(cs)))
                      THEN PreviousStart(cs) ELSE LastStart(cs)
         IN vals[m].name = Escaped(From(cs, start))
    /\ (pc = "yielded" /\ frags = ExampleEnum) =>
         NamesAndValues = << << << "a" >>, << "0" >> >>,
                             << << "b" >>, << "5" >> >>,
                             << << "c" >>, << "6" >> >> >>

\* C19: the name is the last segment of the C name, with the segment before
\* it whenever the last one has at most one character, letter or digit, and
\* with an escape '_' when that starts with a digit; the example enum gives
\* foo_a, foo_b, foo_c with the values 0, 5, 6.
C19_BorrowsForASingleCharacter ==
  mode = "enums" =>
    /\ \A m \in 1..Len(vals) :
         LET cs == CName(vals[m])
             start == IF Len(cs) - LastStart(cs) + 1 <= 1
                      THEN PreviousStart(cs) ELSE LastStart(cs)
         IN vals[m].name = Escaped(From(cs, start))
    /\ (pc = "yielded" /\ frags = ExampleEnum) =>
         NamesAndValues =
           << << << "f", "o", "o", "_", "a" >>, << "0" >> >>,
              << << "f", "o", "o", "_", "b" >>, << "5" >> >>,
              << << "f", "o", "o", "_", "c" >>, << "6" >> >> >>

\* The example enum was parsed: its Vals are foo_a, foo_b and foo_c.
C19_Witness ==
  /\ mode = "enums"
  /\ pc = "yielded"
  /\ frags = ExampleEnum
  /\ Len(vals) = 3
  /\ vals[1].name = << "f", "o", "o", "_", "a" >>
  /\ vals[2].name = << "f", "o", "o", "_", "b" >>
  /\ vals[2].value = << "5" >>
  /\ vals[3].value = << "6" >>

\* An enum with a name ending in 1_1, one with a longer last segment and one
\* whose last segment starts with a digit was parsed.
C19_OtherNamesParsed ==
  /\ mode = "enums"
  /\ pc = "yielded"
  /\ frags = << << "libvlc_state_1_1" >>,
                << "libvlc_foo_bar", "=", "2" >>,
                << "libvlc_foo_3d" >> >>
  /\ vals[1].name = << "_", "1", "_", "1" >>
  /\ vals[2].name = << "b", "a", "r" >>
  /\ vals[3].name = << "_", "3", "d" >>
  /\ vals[3].value = << "3" >>

\* ------------------------------------------------------------------------
\* C16: the output file
\* ------------------------------------------------------------------------

\* the run has left save, process or the program, by whatever path
Left == mode = "run" /\ pc \in { "TypeError", "returned", "done", "exited" }

\* C16: on every path out of the run, the hard failure of generate_ctypes
\* and the exit at a checkpoint included, the output file has been released.
C16_OutputReleasedOnEveryExit == Left => file = None

\* ------------------------------------------------------------------------
\* C17: process-wide state
\* ------------------------------------------------------------------------

\* a Parser is about to read its header
Starting == mode = "run" /\ pc = "parse_callbacks" /\ hi = 0

\* C17: parsing a header and constructing a generator leave the module
\* attribute _blacklist and the class attribute type2class as they were, so
\* that every Parser starts from the same ones, and the 'blacklisted'
\* comment of a run lists the blacklisted functions of its own header only.
C17_OnlyTheCounterIsProcessWide ==
  /\ Starting => (blacklist = Blacklist0 /\ type2class = Type2Class0)
  /\ Audited =>
       BlacklistedLines =
         { << "#", DeclaredName(header[i]) >> : i \in BlacklistedDecls }

\* ------------------------------------------------------------------------
\* C18: generating twice
\* ------------------------------------------------------------------------

\* the second call of process is on the input of the first
SameInput ==
  /\ previous # <<>>
  /\ previous[1].header = header
  /\ previous[1].override = override

\* C18: a second call of process in the same process, on the same header
\* and the same override.py, writes what the first call wrote: the same
\* declarations, classes and methods in the same order and the same audit
\* comments (the line of the build date is part of the boilerplate and not
\* of this output).
C18_SecondRunWritesTheSame ==
  (mode = "run" /\ pc = "returned" /\ SameInput)
    => output = previous[1].output

\* The second call has returned: the header declares a callback, a
\* blacklisted function and a function wrapped in class Instance, so the
\* first call changed _blacklist and type2class, and both outputs hold a
\* class, a method and an audit comment.
C18_Witness ==
  /\ mode = "run"
  /\ pc = "returned"
  /\ SameInput
  /\ Len(header) = 2
  /\ header[1].form = "func"
  /\ DeclaredName(header[1]) \in BlacklistNames
  /\ \E k \in 1..Len(output) : output[k].what = "method"
  /\ \E k \in 1..Len(output) : output[k].what = "audit"
  /\ blacklist # Blacklist0
  /\ override # <<>>
  /\ output = previous[1].output

\* ------------------------------------------------------------------------
\* C21: ordinary comments and declaration text
\* ------------------------------------------------------------------------

\* the tokens of an ordinary comment: its opener, its text and its closer
CommentTokens == { "/*", "c", "*/" }

\* the positions of the lines read that hold a complete one-line
\* declaration, a trailing comment or none after it, read outside a comment
\* and with no accumulation open before them
CompleteDecls ==
  { i \in 1..n :
      /\ DeclLine(i)
      /\ match_t(kind, Strip(h_file[i]))
      /\ EndsWith(DeclText(i), Ends(kind))
      /\ match_re(kind, DeclText(i))
      /\ \A o \in 1..(i - 1) : Opener(o) => (CloseOf(o) # 0 /\ CloseOf(o) < i) }

\* C21: no token of an ordinary comment is in a text handed to the
\* structural pattern or in the accumulation buffer, and a comment trailing
\* a complete one-line declaration neither keeps that declaration open nor
\* takes its yield away: the declaration is yielded on its own line.
C21_CommentsStayOutOfDeclarations ==
  mode = "groups" =>
    /\ \A k \in 1..Len(tried) : Range(tried[k].text) \cap CommentTokens = {}
    /\ \A k \in 1..Len(a) : Range(a[k]) \cap CommentTokens = {}
    /\ \A i \in CompleteDecls :
         BeforeComment(Strip(h_file[i])) # Strip(h_file[i])
           => YieldsAt(i) # {}

\* ------------------------------------------------------------------------
\* C22: __iter__ and __len__
\* ------------------------------------------------------------------------

\* the pieces of the given kind written for class c
PiecesIn(what, c) ==
  { k \in 1..Len(output) :
      output[k].what = what /\ output[k].types = << c >> }

\* C22: a wrapper class for which __iter__ is written also has a __len__
\* written.
C22_IterComesWithLen ==
  mode = "run" =>
    \A c \in Range(defined_classes) :
      PiecesIn("__iter__", c) # {} => PiecesIn("__len__", c) # {}

\* both pieces are written for class MediaList when the header declares
\* both functions
C22_BothWritten ==
  /\ WrappersWritten
  /\ PiecesIn("__iter__", "MediaList") # {}
  /\ PiecesIn("__len__", "MediaList") # {}
  /\ PiecesIn("__getitem__", "MediaList") # {}

\* ------------------------------------------------------------------------
\* C23: what clears the doc buffer
\* ------------------------------------------------------------------------

\* the greatest element of a non-empty set of numbers
Greatest(S) == CHOOSE j \in S : \A k \in S : k <= j

\* the doc string buffered by the last documentation block started among
\* the lines of S: its first line and the ' * ' lines of S after it
DocOfLastBlock(S) ==
  LET b == Greatest({ i \in S : StartsWith(h_file[i], "/**") })
  IN DocString(TextsOf({ b } \cup
                         { i \in S : i > b /\ StartsWith(h_file[i], " * ") }))

\* C23: a step of parse_groups changes the doc buffer only when the line it
\* reads is a documentation line or yields, and empties a doc buffer only
\* when it yields; so a declaration yielded after a documentation block
\* started since the yield before it gets the doc string of the last such
\* block, whatever lines that are not documentation lines lie in between.
C23_DocKeptUntilYield ==
  /\ [](mode = "groups" =>
          \A k \in 1..Len(yields) :
            LET since == Between(PreviousYield(k), yields[k].line)
            IN (\E i \in since : StartsWith(h_file[i], "/**"))
                 => yields[k].docs = DocOfLastBlock(since))
  /\ [][(mode = "groups" /\ d' # d)
          => /\ n' = n + 1
             /\ \/ IsDocLine(h_file'[n'])
                \/ Len(yields') = Len(yields) + 1
             /\ d' = <<>> => Len(yields') = Len(yields) + 1]_vars

\* A documentation block, a candidate line whose structural match fails
\* and a matching declaration were read: the declaration is yielded with
\* the doc string of the block.
C23_Witness ==
  /\ mode = "groups"
  /\ kind = "func"
  /\ h_file = << << "/**", "doc" >>, << "API", ");" >>,
                 << "API", "sig", ");" >> >>
  /\ Len(tried) = 2
  /\ Len(yields) = 1
  /\ yields[1].line = 3
  /\ yields[1].docs = << "doc" >>
  /\ d = <<>>

=============================================================================
